---- MODULE Spec2Model ----
(***************************************************************************)
(* Timeline item registry with dynamic bundling, the tag/group connection  *)
(* overlay (src/js/timeline-items.js) and the debounced URL state manager  *)
(* (src/unnamed/part_007, imported by the timeline as js/url-state.js).    *)
(*                                                                         *)
(* Times are counted in days: one unit of date, currentDate and            *)
(* thresholdMs stands for 24*60*60*1000 ms.                                *)
(***************************************************************************)
EXTENDS Integers, Sequences, FiniteSets, TLC

\* ------------------------------------------------------------------ bounds
\* Longest item list handed to initRegistry.
MaxItems == 3

\* ------------------------------------------------------- values of the JS
\* null / undefined where a string is expected.
NULL == "null"
\* item.date of a project without a date (null).
NoDate == -1
\* An optional Set argument: absent (undefined/null) or a Set.
None == <<>>
Some(S) == <<S>>

\* bundleConfig.thresholdMs as the module sets it: 14 days.
DefaultThreshold == 14
\* bundleConfig.currentDate as the module sets it: Date.now() at load.
Now == 100

VARIABLES
  manifest,      \* the list of TimelineItems the page load hands to initRegistry
  items,         \* registry: the item list
  itemsById,     \* registry: id -> position of the item in items
  bundleConfig,  \* registry: [thresholdMs, currentDate]
  ret,           \* the last registry call and what it returned
  sections,      \* URL state: registered name -> [defaults, current, onRestore]
  activeSection, \* URL state: the active section's name, or NULL
  pendingTimer,  \* URL state: the debounce timer's id, or NoTimer
  timers,        \* browser: ids of the timeouts set and neither fired nor cleared
  locationHash,  \* browser: location.hash
  effects,       \* what the last URL call did: flushUpdate runs, history.replaceState
                 \* calls, onRestore invocations, the value returned if any
  call,          \* the last URL call: [op, name, immediate, effective (not returned
                 \* from at its guard), pendingBefore (a timer was pending when it
                 \* was made), hashChanged (location.hash is another after it)]
  sinceChange,   \* flushes and history writes since the active section or its
                 \* state last changed
  burst,         \* the run of non-immediate updateSectionState calls under way
  now,           \* browser: the time, in ticks of half a debounce window
  due,           \* browser: timer id -> the time its timeout is due
  window,        \* the debounce window under way: when its first and last
                 \* scheduling calls were made and when its timer fired
  view           \* the timeline section: its module state (selectedTags,
                 \* tagsVisible, connectionMode, selectedGroup, allTags, allGroups,
                 \* currentDisplayStructure, currentVisibleProject), the connection
                 \* classes of the elements it rendered, and its last handler

regVars == <<manifest, items, itemsById, bundleConfig, ret>>
urlVars == <<sections, activeSection, pendingTimer, timers, locationHash, effects>>
timeVars == <<now, due, window>>
obsVars == <<call, sinceChange, burst, timeVars>>
pageVars == <<regVars, view>>
vars == <<regVars, urlVars, obsVars, view>>

\* ------------------------------------------------------------ input sets
Slugs == <<"a", "b", "c", "d", "e">>
Tags == {"t1", "t2"}
TagArgs == {None} \cup {Some(S) : S \in SUBSET Tags}
GroupArgs == {NULL, "", "X", "Y"}
PhaseArgs == {1, 2, 3}
\* Dates of the projects: day 50 is older than either threshold used.
OldDates == {50}
\* initRegistry's config: the keys it has, and their values.  NoConfig is {}.
NoConfig == [has |-> {}, thresholdMs |-> 0, currentDate |-> 0]
Configs == { NoConfig,
             [has |-> {"thresholdMs", "currentDate"}, thresholdMs |-> 7, currentDate |-> 90] }

\* Projects of the bundling runs: two phases, small/old or medium, one tag or none.
BundlingProjects ==
  [phase : {1, 2}, tags : {{}, {"t1"}, {"t2"}}, group : {NULL},
   level : {2, 3}, date : OldDates]
\* Projects of the connection runs: one phase, groups and tags vary.
ConnectionProjects ==
  [phase : {1}, tags : {{}, {"t1"}}, group : {NULL},
   level : {2, 3}, date : OldDates]
  \cup [phase : {1}, tags : {{}}, group : {"X", "Y"},
        level : {2, 3}, date : OldDates]

\* Projects of the eligibility runs: one phase; small or medium; old, of an age
\* equal to the module's threshold (day 86 is 14 days before day 100), or undated.
EligibilityProjects ==
  [phase : {1}, tags : {{}, {"t1"}}, group : {NULL},
   level : {2, 3}, date : OldDates \cup {86, NoDate}]

\* The item created for one project of the manifest.
createEntryItem(project, phaseId) ==
  [ id |-> project.slug,
    type |-> "entry",
    phaseId |-> phaseId,
    tags |-> project.tags,
    group |-> project.group,
    level |-> IF project.level = 0 THEN 2 ELSE project.level,
    date |-> project.date,
    isVisible |-> TRUE ]

\* Every list of at most MaxItems items over the projects P, slugs by position.
ManifestsOver(P) ==
  UNION { { [i \in 1..n |->
              createEntryItem([slug |-> Slugs[i], tags |-> f[i].tags,
                               group |-> f[i].group, level |-> f[i].level,
                               date |-> f[i].date], f[i].phase)] :
            f \in [1..n -> P] } : n \in 0..MaxItems }

\* ------------------------------------------------------------- registry
\* isBundleable taking an age equal to the threshold as old enough.
isBundleableAtThreshold(item, config) ==
  IF item.level # 3 THEN FALSE
  ELSE IF item.date = NoDate THEN FALSE
  ELSE config.currentDate - item.date >= config.thresholdMs

isBundleable(item, config) ==
  IF item.level # 3 THEN FALSE
  ELSE IF item.date = NoDate THEN FALSE
  ELSE config.currentDate - item.date > config.thresholdMs

\* itemsById after items.forEach(item => itemsById.set(item.id, item)).
indexById(list) ==
  [id \in {list[i].id : i \in 1..Len(list)} |->
     CHOOSE i \in 1..Len(list) :
       /\ list[i].id = id
       /\ \A j \in (i+1)..Len(list) : list[j].id # id]

NoReturn(op) ==
  [op |-> op, phaseId |-> 0, selectedTags |-> None, selectedGroup |-> NULL,
   config |-> NoConfig, structure |-> <<>>, connections |-> <<>>,
   id |-> NULL, item |-> None]

InitRegistry(allItems, config) ==
  /\ items' = allItems
  /\ itemsById' = indexById(allItems)
  /\ bundleConfig' =
       [thresholdMs |-> IF "thresholdMs" \in config.has
                          THEN config.thresholdMs ELSE bundleConfig.thresholdMs,
        currentDate |-> IF "currentDate" \in config.has
                          THEN config.currentDate ELSE bundleConfig.currentDate]
  /\ ret' = [NoReturn("initRegistry") EXCEPT !.config = config]
  /\ UNCHANGED <<manifest, urlVars, obsVars, view>>

\* item.tags.some(t => selectedTags.has(t))
tagsSome(item, S) == \E t \in item.tags : t \in S

\* applyFilter patching the flags: an item, once hidden, stays hidden.
applyFilterPatching(list, selectedTags) ==
  LET noFilter == selectedTags = None \/ Cardinality(selectedTags[1]) = 0
  IN [i \in 1..Len(list) |->
        [list[i] EXCEPT !.isVisible =
           @ /\ (noFilter \/ tagsSome(list[i], selectedTags[1]))]]

applyFilter(list, selectedTags) ==
  LET noFilter == selectedTags = None \/ Cardinality(selectedTags[1]) = 0
  IN [i \in 1..Len(list) |->
        [list[i] EXCEPT !.isVisible = noFilter \/ tagsSome(list[i], selectedTags[1])]]

ApplyFilter(selectedTags) ==
  /\ items' = applyFilter(items, selectedTags)
  /\ ret' = [NoReturn("applyFilter") EXCEPT !.selectedTags = selectedTags]
  /\ UNCHANGED <<manifest, itemsById, bundleConfig, urlVars, obsVars, view>>

\* ------------------------------------------------------ display structure
BundleId(phaseId, bundleIndex) ==
  "bundle-phase" \o ToString(phaseId) \o "-" \o ToString(bundleIndex)

\* A display unit { type, item | items, id }; an entry keeps its item as items[1].
EntryUnit(item) == [type |-> "entry", items |-> <<item>>, id |-> item.id]
BundleUnit(list, id) == [type |-> "bundle", items |-> list, id |-> id]

\* flushBundle without the single-item case.
flushBundleAlways(st, phaseId) ==
  IF Len(st.pendingBundle) = 0 THEN st
  ELSE [st EXCEPT !.result = Append(@, [type |-> "bundle", items |-> st.pendingBundle,
                                        id |-> BundleId(phaseId, st.bundleIndex)]),
                  !.bundleIndex = @ + 1,
                  !.pendingBundle = <<>>]

\* The walk's locals: result, pendingBundle, bundleIndex.
flushBundle(st, phaseId) ==
  IF Len(st.pendingBundle) = 0 THEN st
  ELSE IF Len(st.pendingBundle) = 1
    THEN [st EXCEPT !.result = Append(@, EntryUnit(st.pendingBundle[1])),
                    !.pendingBundle = <<>>]
    ELSE [st EXCEPT !.result = Append(@, BundleUnit(st.pendingBundle,
                                                    BundleId(phaseId, st.bundleIndex))),
                    !.bundleIndex = @ + 1,
                    !.pendingBundle = <<>>]

\* The loop's turn with an invisible item flushing the pending bundle.
visitItemFlushingHidden(st, item, phaseId, config) ==
  IF ~item.isVisible THEN flushBundle(st, phaseId)
  ELSE IF isBundleable(item, config)
    THEN [st EXCEPT !.pendingBundle = Append(@, item)]
    ELSE LET flushed == flushBundle(st, phaseId)
         IN [flushed EXCEPT !.result = Append(@, EntryUnit(item))]

\* One turn of the loop over phaseItems.
visitItem(st, item, phaseId, config) ==
  IF ~item.isVisible THEN st
  ELSE IF isBundleable(item, config)
    THEN [st EXCEPT !.pendingBundle = Append(@, item)]
    ELSE LET flushed == flushBundle(st, phaseId)
         IN [flushed EXCEPT !.result = Append(@, EntryUnit(item))]

RECURSIVE walkItems(_, _, _, _, _)
walkItems(phaseItems, i, st, phaseId, config) ==
  IF i > Len(phaseItems) THEN st
  ELSE walkItems(phaseItems, i + 1, visitItem(st, phaseItems[i], phaseId, config),
                 phaseId, config)

\* computeDisplayStructure without the flush after the loop.
computeDisplayStructureUnflushed(list, config, phaseId) ==
  LET phaseItems == SelectSeq(list, LAMBDA item : item.phaseId = phaseId)
      start == [result |-> <<>>, pendingBundle |-> <<>>, bundleIndex |-> 0]
  IN walkItems(phaseItems, 1, start, phaseId, config).result

computeDisplayStructure(list, config, phaseId) ==
  LET phaseItems == SelectSeq(list, LAMBDA item : item.phaseId = phaseId)
      start == [result |-> <<>>, pendingBundle |-> <<>>, bundleIndex |-> 0]
  IN flushBundle(walkItems(phaseItems, 1, start, phaseId, config), phaseId).result

ComputeDisplayStructure(phaseId) ==
  /\ ret' = [NoReturn("computeDisplayStructure") EXCEPT
               !.phaseId = phaseId,
               !.structure = computeDisplayStructure(items, bundleConfig, phaseId)]
  /\ UNCHANGED <<manifest, items, itemsById, bundleConfig, urlVars, obsVars, view>>

\* Array.from(phaseSet).sort((a, b) => a - b)
RECURSIVE sortAscending(_)
sortAscending(S) ==
  IF S = {} THEN <<>>
  ELSE LET m == CHOOSE x \in S : \A y \in S : x <= y
       IN <<m>> \o sortAscending(S \ {m})

\* getPhaseIds(): the phases that have items, ascending.
getPhaseIds(list) == sortAscending({list[i].phaseId : i \in 1..Len(list)})

\* renderTimeline's loop over the phases in reverse (newest first), appending
\* each phase's display structure; the phases are those that have items.
RECURSIVE concatPhases(_, _, _, _)
concatPhases(list, config, phaseIds, k) ==
  IF k = 0 THEN <<>>
  ELSE computeDisplayStructure(list, config, phaseIds[k])
         \o concatPhases(list, config, phaseIds, k - 1)

\* currentDisplayStructure as renderTimeline leaves it.
currentDisplayStructure(list, config) ==
  concatPhases(list, config, getPhaseIds(list), Len(getPhaseIds(list)))

\* ------------------------------------------------------------ connections
\* hasMatch by tag with a bundle matching only when every child matches.
hasTagMatchEvery(displayItem, S) ==
  IF displayItem.type = "entry"
    THEN tagsSome(displayItem.items[1], S)
    ELSE \A k \in 1..Len(displayItem.items) : tagsSome(displayItem.items[k], S)

\* hasMatch of computeConnectionsByTag for one display unit.
hasTagMatch(displayItem, S) ==
  IF displayItem.type = "entry"
    THEN tagsSome(displayItem.items[1], S)
    ELSE \E k \in 1..Len(displayItem.items) : tagsSome(displayItem.items[k], S)

\* hasMatch by group with a bundle matching when any child is of the group.
hasGroupMatchAny(displayItem, selectedGroup) ==
  IF displayItem.type = "entry"
    THEN displayItem.items[1].group = selectedGroup
    ELSE \E k \in 1..Len(displayItem.items) :
           displayItem.items[k].group = selectedGroup

\* hasMatch of computeConnectionsByGroup for one display unit.
hasGroupMatch(displayItem, selectedGroup) ==
  IF displayItem.type = "entry"
    THEN displayItem.items[1].group = selectedGroup
    ELSE LET groups == SelectSeq([k \in 1..Len(displayItem.items) |->
                                    displayItem.items[k].group],
                                 LAMBDA g : g # NULL)
         IN /\ Len(groups) = Len(displayItem.items)
            /\ Cardinality({groups[k] : k \in 1..Len(groups)}) = 1
            /\ groups[1] = selectedGroup

\* The info with the gaps taken as index differences of at least 1.
connectionInfoOffByOne(matchingItems, i, groupId) ==
  [ connected |-> TRUE,
    groupId |-> groupId,
    isStart |-> i = 1,
    isEnd |-> i = Len(matchingItems),
    gapAbove |-> IF i > 1
                   THEN matchingItems[i].index - matchingItems[i-1].index >= 1
                   ELSE FALSE,
    gapBelow |-> IF i < Len(matchingItems)
                   THEN matchingItems[i+1].index - matchingItems[i].index >= 1
                   ELSE FALSE ]

\* The info stored for match i of matchingItems ({displayItem, index}).
connectionInfo(matchingItems, i, groupId) ==
  [ connected |-> TRUE,
    groupId |-> groupId,
    isStart |-> i = 1,
    isEnd |-> i = Len(matchingItems),
    gapAbove |-> IF i > 1
                   THEN matchingItems[i].index - matchingItems[i-1].index > 1
                   ELSE FALSE,
    gapBelow |-> IF i < Len(matchingItems)
                   THEN matchingItems[i+1].index - matchingItems[i].index > 1
                   ELSE FALSE ]

\* connections after matchingItems.forEach(... connections.set(id, info)).
setConnections(matchingItems, groupId) ==
  LET n == Len(matchingItems)
      ids == {matchingItems[i].displayItem.id : i \in 1..n}
      lastOf(id) == CHOOSE i \in 1..n :
                      /\ matchingItems[i].displayItem.id = id
                      /\ \A j \in (i+1)..n : matchingItems[j].displayItem.id # id
  IN [id \in ids |-> connectionInfo(matchingItems, lastOf(id), groupId)]

\* The {displayItem, index} of the units at the positions idx (index from 0).
matchesAt(displayStructure, idx) ==
  [j \in 1..Len(idx) |->
     [displayItem |-> displayStructure[idx[j]], index |-> idx[j] - 1]]

positions(displayStructure) == [i \in 1..Len(displayStructure) |-> i]

computeConnectionsByTag(selectedTags, displayStructure) ==
  IF selectedTags = None \/ Cardinality(selectedTags[1]) = 0 THEN <<>>
  ELSE setConnections(
         matchesAt(displayStructure,
                   SelectSeq(positions(displayStructure),
                             LAMBDA i : hasTagMatch(displayStructure[i], selectedTags[1]))),
         "tag-group")

\* computeConnectionsByGroup without its guard on the selection.
computeConnectionsByGroupUnguarded(selectedGroup, displayStructure) ==
  setConnections(
    matchesAt(displayStructure,
              SelectSeq(positions(displayStructure),
                        LAMBDA i : hasGroupMatch(displayStructure[i], selectedGroup))),
    selectedGroup)

computeConnectionsByGroup(selectedGroup, displayStructure) ==
  IF selectedGroup \in {NULL, ""} THEN <<>>
  ELSE setConnections(
         matchesAt(displayStructure,
                   SelectSeq(positions(displayStructure),
                             LAMBDA i : hasGroupMatch(displayStructure[i], selectedGroup))),
         selectedGroup)

ComputeConnectionsByTag(selectedTags) ==
  LET displayStructure == currentDisplayStructure(items, bundleConfig)
  IN /\ ret' = [NoReturn("computeConnectionsByTag") EXCEPT
                  !.selectedTags = selectedTags,
                  !.structure = displayStructure,
                  !.connections = computeConnectionsByTag(selectedTags, displayStructure)]
     /\ UNCHANGED <<manifest, items, itemsById, bundleConfig, urlVars, obsVars, view>>

ComputeConnectionsByGroup(selectedGroup) ==
  LET displayStructure == currentDisplayStructure(items, bundleConfig)
  IN /\ ret' = [NoReturn("computeConnectionsByGroup") EXCEPT
                  !.selectedGroup = selectedGroup,
                  !.structure = displayStructure,
                  !.connections = computeConnectionsByGroup(selectedGroup, displayStructure)]
     /\ UNCHANGED <<manifest, items, itemsById, bundleConfig, urlVars, obsVars, view>>

\* getItemById answering an unknown id with the first item.
getItemByIdOrFirst(index, list, id) ==
  IF id \in DOMAIN index THEN Some(list[index[id]])
  ELSE IF Len(list) > 0 THEN Some(list[1]) ELSE None

\* itemsById.get(id): the item, or undefined.
getItemById(index, list, id) ==
  IF id \in DOMAIN index THEN Some(list[index[id]]) ELSE None

GetItemById(id) ==
  /\ ret' = [NoReturn("getItemById") EXCEPT
               !.id = id, !.item = getItemById(itemsById, items, id)]
  /\ UNCHANGED <<manifest, items, itemsById, bundleConfig, urlVars, obsVars, view>>

Reset ==
  /\ items' = <<>>
  /\ itemsById' = <<>>
  /\ ret' = NoReturn("reset")
  /\ UNCHANGED <<manifest, bundleConfig, urlVars, obsVars, view>>

\* ------------------------------------------------------ URL state manager
\* pendingTimer = null; setTimeout returns ids above 0.
NoTimer == 0

\* A hash "#<section>?<k=v&...>" as its section, whether a "?" follows it, and
\* the parameters in order, each <<key, value>> with the value decoded
\* (URLSearchParams decodes what it encoded).  NoHash is the empty string.
NoHash == [section |-> "", mark |-> FALSE, params |-> <<>>]
Hash(section, params) == [section |-> section, mark |-> params # <<>>, params |-> params]

\* A value is truthy in an if: not undefined/null, not the empty string.
Truthy(state, key) == key \in DOMAIN state /\ state[key] \notin {NULL, ""}

\* tags.join(',')
RECURSIVE joinComma(_)
joinComma(list) ==
  IF Len(list) = 0 THEN ""
  ELSE IF Len(list) = 1 THEN list[1]
  ELSE list[1] \o "," \o joinComma(Tail(list))

\* Strings without a comma that a tags parameter is made of.
Pieces == {"", "a", "b"}
\* Most pieces in one tags parameter.
MaxPieces == 3

\* value.split(','): the comma-free pieces whose join is the value.
splitComma(value) ==
  IF value = "" THEN <<"">>
  ELSE CHOOSE list \in UNION {[1..n -> Pieces] : n \in 1..MaxPieces} :
         joinComma(list) = value

\* The object {}.
EmptyObject == [key \in {} |-> NULL]

\* The state a section's hash is built from: section?.current || {}.
currentOf(secs, name) ==
  IF name \in DOMAIN secs THEN secs[name].current ELSE EmptyObject

\* The hash built from the timeline's state whichever section is active.
newHashOfTimeline(secs, active) ==
  LET state == currentOf(secs, "timeline")
      project == IF Truthy(state, "project")
                   THEN <<<<"project", state["project"]>>>> ELSE <<>>
      tags == IF "tags" \in DOMAIN state /\ Len(state["tags"]) > 0
                THEN <<<<"tags", joinComma(state["tags"])>>>> ELSE <<>>
  IN Hash(active, project \o tags)

\* The hash built with the state's view key written to it as well.
newHashOfWithView(secs, active) ==
  LET state == currentOf(secs, active)
      project == IF Truthy(state, "project")
                   THEN <<<<"project", state["project"]>>>> ELSE <<>>
      tags == IF "tags" \in DOMAIN state /\ Len(state["tags"]) > 0
                THEN <<<<"tags", joinComma(state["tags"])>>>> ELSE <<>>
      mode == IF Truthy(state, "mode") /\ state["mode"] # "none"
                THEN <<<<"mode", state["mode"]>>>> ELSE <<>>
      group == IF Truthy(state, "group")
                 THEN <<<<"group", state["group"]>>>> ELSE <<>>
      viewKey == IF Truthy(state, "view")
                   THEN <<<<"view", state["view"]>>>> ELSE <<>>
  IN Hash(active, project \o tags \o mode \o group \o viewKey)

\* The hash flushUpdate computes for the active section.
newHashOf(secs, active) ==
  LET state == currentOf(secs, active)
      project == IF Truthy(state, "project")
                   THEN <<<<"project", state["project"]>>>> ELSE <<>>
      tags == IF "tags" \in DOMAIN state /\ Len(state["tags"]) > 0
                THEN <<<<"tags", joinComma(state["tags"])>>>> ELSE <<>>
      mode == IF Truthy(state, "mode") /\ state["mode"] # "none"
                THEN <<<<"mode", state["mode"]>>>> ELSE <<>>
      group == IF Truthy(state, "group")
                 THEN <<<<"group", state["group"]>>>> ELSE <<>>
  IN Hash(active, project \o tags \o mode \o group)

\* flushUpdate without the change detection.
flushUpdateAlwaysWrites(secs, active, hash) ==
  IF active \in {NULL, ""} THEN [hash |-> hash, replaceState |-> 0]
  ELSE [hash |-> newHashOf(secs, active), replaceState |-> 1]

\* flushUpdate's effect on location.hash and its calls of history.replaceState
\* (pendingTimer = null is the caller's part below).
flushUpdate(secs, active, hash) ==
  IF active \in {NULL, ""} THEN [hash |-> hash, replaceState |-> 0]
  ELSE IF hash # newHashOf(secs, active)
    THEN [hash |-> newHashOf(secs, active), replaceState |-> 1]
    ELSE [hash |-> hash, replaceState |-> 0]

\* The id setTimeout returns: one no timeout set or remembered has.
newTimerId(table, pending) ==
  CHOOSE id \in 1..(Cardinality(table) + 2) :
    /\ id \notin table \cup {pending}
    /\ \A other \in 1..(id - 1) : other \in table \cup {pending}

\* scheduleUpdate setting a timer whether or not one is pending.
scheduleUpdateAlwaysSets(immediate, secs, active) ==
  IF immediate
    THEN LET flushed == flushUpdate(secs, active, locationHash)
         IN /\ timers' = timers \ {pendingTimer}
            /\ pendingTimer' = NoTimer
            /\ locationHash' = flushed.hash
            /\ effects' = [flushes |-> 1, replaceState |-> flushed.replaceState,
                           restores |-> <<>>, returned |-> None]
    ELSE /\ pendingTimer' = newTimerId(timers, pendingTimer)
         /\ timers' = timers \cup {newTimerId(timers, pendingTimer)}
         /\ locationHash' = locationHash
         /\ effects' = [flushes |-> 0, replaceState |-> 0, restores |-> <<>>, returned |-> None]

\* scheduleUpdate forgetting clearTimeout on the immediate path.
scheduleUpdateNoClear(immediate, secs, active) ==
  IF immediate
    THEN LET flushed == flushUpdate(secs, active, locationHash)
         IN /\ timers' = timers
            /\ pendingTimer' = NoTimer
            /\ locationHash' = flushed.hash
            /\ effects' = [flushes |-> 1, replaceState |-> flushed.replaceState,
                           restores |-> <<>>, returned |-> None]
    ELSE /\ IF pendingTimer = NoTimer
              THEN /\ pendingTimer' = newTimerId(timers, pendingTimer)
                   /\ timers' = timers \cup {newTimerId(timers, pendingTimer)}
              ELSE UNCHANGED <<pendingTimer, timers>>
         /\ locationHash' = locationHash
         /\ effects' = [flushes |-> 0, replaceState |-> 0, restores |-> <<>>, returned |-> None]

\* scheduleUpdate restarting the timer at every call (a quiet-period debounce).
scheduleUpdateRestarting(immediate, secs, active) ==
  IF immediate
    THEN LET flushed == flushUpdate(secs, active, locationHash)
         IN /\ timers' = timers \ {pendingTimer}
            /\ pendingTimer' = NoTimer
            /\ locationHash' = flushed.hash
            /\ effects' = [flushes |-> 1, replaceState |-> flushed.replaceState,
                           restores |-> <<>>, returned |-> None]
    ELSE /\ pendingTimer' = newTimerId(timers, pendingTimer)
         /\ timers' = (timers \ {pendingTimer}) \cup {newTimerId(timers, pendingTimer)}
         /\ locationHash' = locationHash
         /\ effects' = [flushes |-> 0, replaceState |-> 0, restores |-> <<>>,
                        returned |-> None]

\* scheduleUpdate(immediate), called with the sections and the active section as
\* the caller has just set them.
scheduleUpdate(immediate, secs, active) ==
  IF immediate
    THEN LET flushed == flushUpdate(secs, active, locationHash)
         IN /\ timers' = timers \ {pendingTimer}
            /\ pendingTimer' = NoTimer
            /\ locationHash' = flushed.hash
            /\ effects' = [flushes |-> 1, replaceState |-> flushed.replaceState,
                           restores |-> <<>>, returned |-> None]
    ELSE /\ IF pendingTimer = NoTimer
              THEN /\ pendingTimer' = newTimerId(timers, pendingTimer)
                   /\ timers' = timers \cup {newTimerId(timers, pendingTimer)}
              ELSE UNCHANGED <<pendingTimer, timers>>
         /\ locationHash' = locationHash
         /\ effects' = [flushes |-> 0, replaceState |-> 0, restores |-> <<>>, returned |-> None]

NoEffects == [flushes |-> 0, replaceState |-> 0, restores |-> <<>>, returned |-> None]

\* registerSection keeping the current state of a name registered before.
registerSectionKeeping(secs, name, config) ==
  [n \in DOMAIN secs \cup {name} |->
     IF n = name
       THEN [defaults |-> config.defaults,
             current |-> IF name \in DOMAIN secs THEN secs[name].current
                         ELSE config.defaults,
             onRestore |-> config.onRestore]
       ELSE secs[n]]

\* { ...config.defaults }: a config without defaults gives {}.
registerSection(secs, name, config) ==
  [n \in DOMAIN secs \cup {name} |->
     IF n = name
       THEN [defaults |-> config.defaults, current |-> config.defaults,
             onRestore |-> config.onRestore]
       ELSE secs[n]]

RegisterSection(name, config) ==
  /\ sections' = registerSection(sections, name, config)
  /\ effects' = NoEffects
  /\ UNCHANGED <<activeSection, pendingTimer, timers, locationHash>>

\* The partial replacing the state instead of being merged into it.
objectAssignReplacing(target, partial) == partial

\* Object.assign(target, partial)
objectAssign(target, partial) ==
  [k \in DOMAIN target \cup DOMAIN partial |->
     IF k \in DOMAIN partial THEN partial[k] ELSE target[k]]

UpdateSectionState(name, partial, immediate) ==
  IF name \notin DOMAIN sections
    THEN /\ effects' = NoEffects
         /\ UNCHANGED <<sections, activeSection, pendingTimer, timers, locationHash>>
    ELSE LET merged == [sections EXCEPT ![name].current = objectAssign(@, partial)]
         IN /\ sections' = merged
            /\ activeSection' = name
            /\ scheduleUpdate(immediate, merged, name)

\* setActiveSection without the comparison with the active section.
SetActiveSectionUnguarded(name, immediate) ==
  /\ activeSection' = name
  /\ scheduleUpdate(immediate, sections, name)
  /\ UNCHANGED sections

SetActiveSection(name, immediate) ==
  IF name = activeSection
    THEN /\ effects' = NoEffects
         /\ UNCHANGED <<sections, activeSection, pendingTimer, timers, locationHash>>
    ELSE /\ activeSection' = name
         /\ scheduleUpdate(immediate, sections, name)
         /\ UNCHANGED sections

\* The debounce timer fires: the browser drops it and runs flushUpdate.
TimerFires(id) ==
  LET flushed == flushUpdate(sections, activeSection, locationHash)
  IN /\ id \in timers
     /\ timers' = timers \ {id}
     /\ pendingTimer' = NoTimer
     /\ locationHash' = flushed.hash
     /\ effects' = [flushes |-> 1, replaceState |-> flushed.replaceState,
                    restores |-> <<>>, returned |-> None]
     /\ UNCHANGED <<sections, activeSection>>

\* params.get(key): the first value of the key, or null.
paramsGet(params, key) ==
  IF \E i \in 1..Len(params) : params[i][1] = key
    THEN params[CHOOSE i \in 1..Len(params) :
                  /\ params[i][1] = key
                  /\ \A j \in 1..(i-1) : params[j][1] # key][2]
    ELSE NULL

\* The parsed state with a mode the hash leaves out read as null.
parsedStateModeNull(hash) ==
  [ section |-> hash.section,
    project |-> paramsGet(hash.params, "project"),
    tags |-> IF paramsGet(hash.params, "tags") = NULL THEN <<>>
             ELSE SelectSeq(splitComma(paramsGet(hash.params, "tags")),
                            LAMBDA piece : piece # ""),
    mode |-> paramsGet(hash.params, "mode"),
    group |-> paramsGet(hash.params, "group") ]

\* The state initFromUrl parses from a hash that is not empty.
parsedState(hash) ==
  [ section |-> hash.section,
    project |-> paramsGet(hash.params, "project"),
    tags |-> IF paramsGet(hash.params, "tags") = NULL THEN <<>>
             ELSE SelectSeq(splitComma(paramsGet(hash.params, "tags")),
                            LAMBDA piece : piece # ""),
    mode |-> IF paramsGet(hash.params, "mode") \in {NULL, ""} THEN "none"
             ELSE paramsGet(hash.params, "mode"),
    group |-> paramsGet(hash.params, "group") ]

\* initFromUrl merging the parsed state into the section's current state.
InitFromUrlMerging ==
  IF locationHash = NoHash
    THEN /\ effects' = [NoEffects EXCEPT !.returned =
                          Some([section |-> NULL, project |-> NULL, tags |-> <<>>,
                                mode |-> "none", group |-> NULL])]
         /\ UNCHANGED <<sections, activeSection, pendingTimer, timers, locationHash>>
    ELSE LET parsed == parsedState(locationHash)
             restored == [project |-> parsed.project, tags |-> parsed.tags,
                          mode |-> parsed.mode, group |-> parsed.group]
         IN /\ activeSection' = parsed.section
            /\ IF parsed.section \in DOMAIN sections
                 THEN /\ sections' = [sections EXCEPT ![parsed.section].current =
                                        objectAssign(@, restored)]
                      /\ effects' = [NoEffects EXCEPT
                           !.restores =
                             IF sections[parsed.section].onRestore
                               THEN <<[name |-> parsed.section,
                                       state |-> objectAssign(
                                         sections[parsed.section].current, restored)]>>
                               ELSE <<>>,
                           !.returned = Some(parsed)]
                 ELSE /\ effects' = [NoEffects EXCEPT !.returned = Some(parsed)]
                      /\ UNCHANGED sections
            /\ UNCHANGED <<pendingTimer, timers, locationHash>>

\* initFromUrl on the sections secs and the hash: the sections and active section
\* it leaves, the onRestore calls it makes, and the value it returns.
initFromUrl(secs, active, hash) ==
  IF hash = NoHash
    THEN [sections |-> secs, activeSection |-> active, restores |-> <<>>,
          returned |-> Some([section |-> NULL, project |-> NULL, tags |-> <<>>,
                             mode |-> "none", group |-> NULL])]
    ELSE LET parsed == parsedState(hash)
             restored == [project |-> parsed.project, tags |-> parsed.tags,
                          mode |-> parsed.mode, group |-> parsed.group]
         IN IF parsed.section \in DOMAIN secs
              THEN [sections |-> [secs EXCEPT ![parsed.section].current = restored],
                    activeSection |-> parsed.section,
                    restores |-> IF secs[parsed.section].onRestore
                                   THEN <<[name |-> parsed.section, state |-> restored]>>
                                   ELSE <<>>,
                    returned |-> Some(parsed)]
              ELSE [sections |-> secs, activeSection |-> parsed.section,
                    restores |-> <<>>, returned |-> Some(parsed)]

InitFromUrl ==
  LET done == initFromUrl(sections, activeSection, locationHash)
  IN /\ sections' = done.sections
     /\ activeSection' = done.activeSection
     /\ effects' = [NoEffects EXCEPT !.restores = done.restores,
                                     !.returned = done.returned]
     /\ UNCHANGED <<pendingTimer, timers, locationHash>>

\* state.key || fallback
orElse(state, key, fallback) ==
  IF Truthy(state, key) THEN state[key] ELSE fallback

LegacyDefaults == [project |-> NULL, tags |-> <<>>, mode |-> "none", group |-> NULL]

UpdateUrlState(state) ==
  IF ~Truthy(state, "section")
    THEN /\ effects' = NoEffects
         /\ UNCHANGED <<sections, activeSection, pendingTimer, timers, locationHash>>
    ELSE LET sectionName == state["section"]
             registered ==
               IF sectionName \in DOMAIN sections THEN sections
               ELSE registerSection(sections, sectionName,
                                    [defaults |-> LegacyDefaults, onRestore |-> FALSE])
             updated ==
               [registered EXCEPT ![sectionName].current =
                  [project |-> orElse(state, "project", NULL),
                   tags |-> IF "tags" \in DOMAIN state THEN state["tags"] ELSE <<>>,
                   mode |-> orElse(state, "mode", "none"),
                   group |-> orElse(state, "group", NULL)]]
         IN /\ sections' = updated
            /\ activeSection' = sectionName
            /\ scheduleUpdate(FALSE, updated, sectionName)

\* ------------------------------------------------------------ URL inputs
\* Longest run of non-immediate updateSectionState calls followed call by call.
MaxBurst == 3
\* DEBOUNCE_MS = 100 in ticks of 50 ms.
DebounceTicks == 2
\* The time the clock runs to.
MaxTime == 4

UrlNames == {"timeline", "featured", "hero"}
\* The names setActiveSection is called with: a section's, or none.
ActiveNames == UrlNames \cup {NULL}
TimelineDefaults == [project |-> NULL, tags |-> <<>>, mode |-> "none", group |-> NULL]
\* registerSection's calls: the timeline's, and a section with a key of its own
\* (updateUrlState registers the same section with no restore callback).
Registrations ==
  { [name |-> "timeline", config |-> [defaults |-> TimelineDefaults, onRestore |-> TRUE]],
    [name |-> "featured", config |-> [defaults |-> [view |-> "grid"], onRestore |-> TRUE]] }
\* updateSectionState's partials: the project scroll spy's and syncUrlState's.
Partials ==
  { [project |-> "p1"],
    [project |-> NULL],
    [tags |-> <<"a", "b">>, mode |-> "tag", group |-> NULL],
    [tags |-> <<>>, mode |-> "group", group |-> "X"] }
\* updateUrlState's arguments.
LegacyStates ==
  { [section |-> NULL],
    [section |-> "featured", project |-> "p1"] }
\* The hash the page is opened with.
InitialHashes ==
  { NoHash,
    Hash("timeline", <<>>),
    Hash("timeline", << <<"tags", "a,b">>, <<"mode", "tag">> >>) }

\* No time that was recorded.
Never == -1
NoWindow == [first |-> Never, last |-> Never, firedAt |-> Never]

NoBurst ==
  [n |-> 0, name |-> NULL, start |-> EmptyObject, hashAtStart |-> NoHash,
   partials |-> <<>>, replaceState |-> 0, done |-> FALSE]

InitUrlState ==
  /\ sections = EmptyObject
  /\ activeSection = NULL
  /\ pendingTimer = NoTimer
  /\ timers = {}
  /\ effects = NoEffects
  /\ call = [op |-> "load", name |-> NULL, immediate |-> FALSE, effective |-> FALSE,
             pendingBefore |-> FALSE, hashChanged |-> FALSE]
  /\ sinceChange = [flushes |-> 0, replaceState |-> 0]
  /\ burst = NoBurst
  /\ now = 0
  /\ due = <<>>
  /\ window = NoWindow

\* The record of a call, and the flushes and history writes counted since the
\* active section or its state last changed.
Observe(op, name, immediate) ==
  LET effective == CASE op = "updateSectionState" -> name \in DOMAIN sections
                     [] op = "setActiveSection" -> name # activeSection
                     [] OTHER -> TRUE
      changed == \/ activeSection' # activeSection
                 \/ currentOf(sections', activeSection')
                      # currentOf(sections, activeSection)
      base == IF changed THEN [flushes |-> 0, replaceState |-> 0] ELSE sinceChange
  IN /\ call' = [op |-> op, name |-> name, immediate |-> immediate,
                 effective |-> effective,
                 pendingBefore |-> pendingTimer # NoTimer,
                 hashChanged |-> locationHash' # locationHash]
     /\ sinceChange' =
          [flushes |-> IF base.flushes + effects'.flushes > 2 THEN 2
                       ELSE base.flushes + effects'.flushes,
           replaceState |-> base.replaceState + effects'.replaceState]
     /\ UNCHANGED <<pageVars, burst, timeVars>>

\* The burst under way: it starts with a non-immediate updateSectionState on a
\* registered section that starts the timer, goes on with such calls on that
\* section, and is done when the timer fires; any other call ends the following.
TrackBurst(op, name, partial, immediate) ==
  /\ burst' =
       IF op = "updateSectionState" /\ ~immediate /\ name \in DOMAIN sections
         THEN IF timers' # timers
                THEN [n |-> 1, name |-> name, start |-> sections[name].current,
                      hashAtStart |-> locationHash, partials |-> <<partial>>,
                      replaceState |-> effects'.replaceState, done |-> FALSE]
              ELSE IF burst.n > 0 /\ ~burst.done /\ burst.name = name
                      /\ burst.n < MaxBurst
                THEN [burst EXCEPT !.n = @ + 1,
                                   !.partials = Append(@, partial),
                                   !.replaceState = @ + effects'.replaceState]
              ELSE NoBurst
       ELSE IF op = "timer" /\ burst.n > 0 /\ ~burst.done
         THEN [burst EXCEPT !.done = TRUE,
                            !.replaceState = @ + effects'.replaceState]
       ELSE NoBurst
  /\ UNCHANGED <<pageVars, call, sinceChange, timeVars>>

\* The clock's part of a call: setTimeout(flushUpdate, DEBOUNCE_MS) makes the new
\* timer due one window from now, and the window under way is followed from the
\* call that set the timer through the calls that found it pending to its firing.
Clocked(op, name, immediate) ==
  LET scheduling == CASE op = "updateSectionState" -> name \in DOMAIN sections
                      [] op = "setActiveSection" -> name # activeSection
                      [] op = "updateUrlState" -> name \notin {NULL, ""}
                      [] OTHER -> FALSE
  IN /\ now' = now
     /\ due' = [id \in timers' |->
                 IF id \in timers THEN due[id] ELSE now + DebounceTicks]
     /\ window' =
          IF scheduling /\ ~immediate
            THEN IF pendingTimer = NoTimer
                   THEN [first |-> now, last |-> now, firedAt |-> Never]
                   ELSE [window EXCEPT !.last = now]
          ELSE IF scheduling /\ immediate THEN NoWindow
          ELSE IF op = "timer" THEN [window EXCEPT !.firedAt = now]
          ELSE window
     /\ UNCHANGED <<pageVars, call, sinceChange, burst>>

\* Time passes.
Tick ==
  /\ now < MaxTime
  /\ now' = now + 1
  /\ UNCHANGED <<pageVars, urlVars, call, sinceChange, burst, due, window>>

\* ------------------------------------------------------- timeline section
\* The classes syncConnectionsToDOM clears and sets.
ConnectionClasses ==
  {"is-connected", "is-connection-start", "is-connection-end",
   "is-gap-above", "is-gap-below", "is-isolated"}

\* The classes added for one entry of the map, the ends kept on an isolated one.
connectionClassesKeepingEnds(info) ==
  {"is-connected"}
    \cup (IF info.isStart THEN {"is-connection-start"} ELSE {})
    \cup (IF info.isEnd THEN {"is-connection-end"} ELSE {})
    \cup (IF info.gapAbove THEN {"is-gap-above"} ELSE {})
    \cup (IF info.gapBelow THEN {"is-gap-below"} ELSE {})
    \cup (IF info.isStart /\ info.isEnd THEN {"is-isolated"} ELSE {})

\* The classes the element of one entry of the map has at the end of its turn.
connectionClasses(info) ==
  LET added == {"is-connected"}
                 \cup (IF info.isStart THEN {"is-connection-start"} ELSE {})
                 \cup (IF info.isEnd THEN {"is-connection-end"} ELSE {})
                 \cup (IF info.gapAbove THEN {"is-gap-above"} ELSE {})
                 \cup (IF info.gapBelow THEN {"is-gap-below"} ELSE {})
  IN IF info.isStart /\ info.isEnd
       THEN (added \ {"is-connection-start", "is-connection-end"}) \cup {"is-isolated"}
       ELSE added

\* dom is data-item-id -> class list of the element.  Every element is a
\* .project-entry or a .timeline-bundle, so the first pass clears them all; an
\* entry of the map without an element is skipped.
syncConnectionsToDOM(dom, connections) ==
  [el \in DOMAIN dom |->
     IF el \in DOMAIN connections
       THEN (dom[el] \ ConnectionClasses) \cup connectionClasses(connections[el])
       ELSE dom[el] \ ConnectionClasses]

\* The elements renderTimeline inserts for a display structure: one per unit,
\* and inside a bundle one per child, each with its data-item-id.
renderedElements(displayStructure) ==
  LET n == Len(displayStructure)
      bundles == {i \in 1..n : displayStructure[i].type = "bundle"}
      bundleIds == {displayStructure[i].id : i \in bundles}
      entryIds == {displayStructure[i].id : i \in (1..n) \ bundles}
      childIds == UNION {{displayStructure[i].items[k].id :
                            k \in 1..Len(displayStructure[i].items)} : i \in bundles}
  IN [el \in bundleIds \cup entryIds \cup childIds |->
        IF el \in bundleIds THEN {"timeline-bundle", "reveal"}
        ELSE {"project-entry", "reveal"}]

\* The timeline module before init has run.
NoView ==
  [handler |-> "load", selectedTags |-> <<>>, tagsVisible |-> FALSE,
   connectionMode |-> "none", selectedGroup |-> NULL,
   allTags |-> {}, allGroups |-> {},
   currentDisplayStructure |-> <<>>, currentVisibleProject |-> NULL,
   projectScrollObserver |-> FALSE,
   dom |-> <<>>, domBefore |-> <<>>, connections |-> <<>>]

\* The members of a Set kept as the list of its insertion order.
asSet(list) == {list[i] : i \in 1..Len(list)}

\* refreshConnections with the tag connections computed from the first selected
\* tag alone, not from the selection the filter was applied with.
refreshConnectionsByFirstTag(v) ==
  LET connections ==
        CASE v.connectionMode = "tag" ->
               computeConnectionsByTag(
                 Some(IF Len(v.selectedTags) = 0 THEN {} ELSE {v.selectedTags[1]}),
                 v.currentDisplayStructure)
          [] v.connectionMode = "group" ->
               computeConnectionsByGroup(v.selectedGroup, v.currentDisplayStructure)
          [] OTHER -> <<>>
  IN [v EXCEPT !.connections = connections,
               !.domBefore = v.dom,
               !.dom = syncConnectionsToDOM(v.dom, connections)]

\* refreshConnections: the map of the mode, synced to the elements.  domBefore
\* keeps the class lists the pass found.
refreshConnections(v) ==
  LET connections ==
        CASE v.connectionMode = "tag" ->
               computeConnectionsByTag(Some(asSet(v.selectedTags)),
                                       v.currentDisplayStructure)
          [] v.connectionMode = "group" ->
               computeConnectionsByGroup(v.selectedGroup, v.currentDisplayStructure)
          [] OTHER -> <<>>
  IN [v EXCEPT !.connections = connections,
               !.domBefore = v.dom,
               !.dom = syncConnectionsToDOM(v.dom, connections)]

\* renderTimeline over the registry's items.
renderTimeline(v, list, config) ==
  LET displayStructure == currentDisplayStructure(list, config)
  IN refreshConnections(
       [v EXCEPT !.currentDisplayStructure = displayStructure,
                 !.dom = renderedElements(displayStructure),
                 !.currentVisibleProject =
                    IF v.projectScrollObserver THEN NULL ELSE @])

\* renderTimeline on the items as they are: the filter is not applied first.
applyTagFilterStale(v, list, config) ==
  [view |-> renderTimeline(v, list, config), items |-> list]

\* applyTagFilter: applyFilter(selectedTags), then renderTimeline.
applyTagFilter(v, list, config) ==
  LET filtered == applyFilter(list, Some(asSet(v.selectedTags)))
  IN [view |-> renderTimeline(v, filtered, config), items |-> filtered]

\* selectedTags after the tags of state.tags that the cloud has were added.
RECURSIVE addTags(_, _, _)
addTags(selected, tags, allTags) ==
  IF Len(tags) = 0 THEN selected
  ELSE addTags(IF Head(tags) \in allTags /\ Head(tags) \notin asSet(selected)
                 THEN Append(selected, Head(tags)) ELSE selected,
               Tail(tags), allTags)

\* restoreTimelineState(container, state); scrolling to the project leaves the
\* state alone.
restoreTimelineState(v, list, config, state) ==
  LET withTags == [v EXCEPT !.selectedTags = addTags(@, state.tags, v.allTags)]
      filtered ==
        IF Len(state.tags) > 0 /\ Len(withTags.selectedTags) > 0
          THEN applyTagFilter([withTags EXCEPT !.tagsVisible = TRUE], list, config)
          ELSE [view |-> withTags, items |-> list]
      v2 == filtered.view
      moded ==
        IF state.mode \notin {NULL, "", "none"}
          THEN refreshConnections(
                 [v2 EXCEPT !.connectionMode = state.mode,
                            !.selectedGroup =
                               IF /\ state.mode = "group"
                                  /\ state.group \notin {NULL, ""}
                                  /\ state.group \in v2.allGroups
                                 THEN state.group ELSE @])
          ELSE v2
  IN [view |-> moded, items |-> filtered.items]

\* The registry call a handler made last: the connections of the mode, or the
\* display structure of the phase rendered last, or the call before those.
lastRegistryCall(v, list, config, rendered, before) ==
  CASE v.connectionMode = "tag" ->
         [NoReturn("computeConnectionsByTag") EXCEPT
            !.selectedTags = Some(asSet(v.selectedTags)),
            !.structure = v.currentDisplayStructure,
            !.connections = v.connections]
    [] v.connectionMode = "group" ->
         [NoReturn("computeConnectionsByGroup") EXCEPT
            !.selectedGroup = v.selectedGroup,
            !.structure = v.currentDisplayStructure,
            !.connections = v.connections]
    [] OTHER ->
         IF rendered /\ Len(getPhaseIds(list)) > 0
           THEN [NoReturn("computeDisplayStructure") EXCEPT
                   !.phaseId = getPhaseIds(list)[1],
                   !.structure = computeDisplayStructure(list, config,
                                                         getPhaseIds(list)[1])]
           ELSE before

\* The record of the URL call a handler makes.
Called(op, name, immediate) ==
  call' = [op |-> op, name |-> name, immediate |-> immediate,
           effective |-> CASE op = "updateSectionState" -> name \in DOMAIN sections
                           [] op = "setActiveSection" -> name # activeSection
                           [] OTHER -> TRUE,
           pendingBefore |-> pendingTimer # NoTimer,
           hashChanged |-> locationHash' # locationHash]

\* syncUrlState()
SyncUrlState(v) ==
  /\ UpdateSectionState("timeline",
                        [tags |-> v.selectedTags, mode |-> v.connectionMode,
                         group |-> v.selectedGroup], TRUE)
  /\ Called("updateSectionState", "timeline", TRUE)

\* collectAllTags(projects, []) and collectAllGroups(projects), as sets.
collectAllTags(list) == UNION {list[i].tags : i \in 1..Len(list)}
collectAllGroups(list) ==
  {list[i].group : i \in 1..Len(list)} \ {NULL, ""}

\* init(section, config): the registry is built from the manifest, the timeline
\* is rendered, the section registered and the URL's state restored.
TimelineInit(config) ==
  LET allItems == manifest
      started == [NoView EXCEPT !.allTags = collectAllTags(allItems),
                                !.allGroups = collectAllGroups(allItems)]
      rendered == renderTimeline(started, allItems, config)
      registered == registerSection(sections, "timeline",
                                    [defaults |-> TimelineDefaults, onRestore |-> TRUE])
      done == initFromUrl(registered, activeSection, locationHash)
      restored ==
        IF \E i \in 1..Len(done.restores) : done.restores[i].name = "timeline"
          THEN restoreTimelineState(rendered, allItems, config, done.restores[1].state)
          ELSE [view |-> rendered, items |-> allItems]
      final == [restored.view EXCEPT !.handler = "init",
                                     !.projectScrollObserver = TRUE]
  IN /\ view.handler = "load"
     /\ items' = restored.items
     /\ itemsById' = indexById(allItems)
     /\ bundleConfig' = [thresholdMs |-> config.thresholdMs,
                         currentDate |-> config.currentDate]
     /\ view' = final
     /\ ret' = lastRegistryCall(final, restored.items, config, TRUE,
                                [NoReturn("initRegistry") EXCEPT !.config = config])
     /\ sections' = done.sections
     /\ activeSection' = done.activeSection
     /\ effects' = [NoEffects EXCEPT !.restores = done.restores,
                                     !.returned = done.returned]
     /\ UNCHANGED <<manifest, pendingTimer, timers, locationHash,
                    sinceChange, burst, timeVars>>
     /\ Called("initFromUrl", NULL, FALSE)

\* A click on a button of the tag cloud.
TagCloudClick(tag) ==
  LET toggled == IF tag \in asSet(view.selectedTags)
                   THEN SelectSeq(view.selectedTags, LAMBDA t : t # tag)
                   ELSE Append(view.selectedTags, tag)
      applied == applyTagFilter([view EXCEPT !.selectedTags = toggled],
                                items, bundleConfig)
      final == [applied.view EXCEPT !.handler = "tagCloud"]
  IN /\ view.handler # "load"
     /\ tag \in view.allTags
     /\ items' = applied.items
     /\ view' = final
     /\ ret' = lastRegistryCall(final, applied.items, bundleConfig, TRUE,
                                [NoReturn("applyFilter") EXCEPT
                                   !.selectedTags = Some(asSet(toggled))])
     /\ SyncUrlState(final)
     /\ UNCHANGED <<manifest, itemsById, bundleConfig, sinceChange, burst, timeVars>>

\* A click on Show or Hide of the tags: hiding clears the filter.
TagVisibilityClick(visible) ==
  LET clears == ~visible /\ Len(view.selectedTags) > 0
      shown == [view EXCEPT !.tagsVisible = visible]
      applied == IF clears
                   THEN applyTagFilter([shown EXCEPT !.selectedTags = <<>>],
                                       items, bundleConfig)
                   ELSE [view |-> shown, items |-> items]
      final == [applied.view EXCEPT !.handler = "tagVisibility"]
  IN /\ view.handler # "load"
     /\ view.allTags # {}
     /\ items' = applied.items
     /\ view' = final
     /\ ret' = IF clears
                 THEN lastRegistryCall(final, applied.items, bundleConfig, TRUE,
                                       [NoReturn("applyFilter") EXCEPT
                                          !.selectedTags = Some({})])
                 ELSE ret
     /\ UNCHANGED <<manifest, itemsById, bundleConfig, urlVars, obsVars>>

\* A click on a button of the connection mode.
ConnectionModeClick(mode) ==
  LET final == [refreshConnections(
                  [view EXCEPT !.connectionMode = mode,
                               !.selectedGroup = IF mode # "group" THEN NULL ELSE @])
                EXCEPT !.handler = "connectionMode"]
  IN /\ view.handler # "load"
     /\ view.allTags # {}
     /\ view' = final
     /\ ret' = lastRegistryCall(final, items, bundleConfig, FALSE, ret)
     /\ SyncUrlState(final)
     /\ UNCHANGED <<manifest, items, itemsById, bundleConfig,
                    sinceChange, burst, timeVars>>

\* A click on a button of the group selector.
GroupClick(group) ==
  LET final == [refreshConnections(
                  [view EXCEPT !.selectedGroup =
                                  IF view.selectedGroup = group THEN NULL ELSE group])
                EXCEPT !.handler = "group"]
  IN /\ view.handler # "load"
     /\ view.allTags # {}
     /\ group \in view.allGroups
     /\ view' = final
     /\ ret' = lastRegistryCall(final, items, bundleConfig, FALSE, ret)
     /\ SyncUrlState(final)
     /\ UNCHANGED <<manifest, items, itemsById, bundleConfig,
                    sinceChange, burst, timeVars>>

\* The slugs of the .project-entry[data-slug] elements: the entries rendered,
\* those inside the bundles included.
observedSlugs(v) ==
  {el \in DOMAIN v.dom : "project-entry" \in v.dom[el]}

\* The scroll spy's callback with the project slug nearest the centre.
ProjectScrollSpy(slug) ==
  /\ view.projectScrollObserver
  /\ slug \in observedSlugs(view)
  /\ slug # view.currentVisibleProject
  /\ view' = [view EXCEPT !.currentVisibleProject = slug, !.handler = "scrollSpy"]
  /\ UpdateSectionState("timeline", [project |-> slug], FALSE)
  /\ Called("updateSectionState", "timeline", FALSE)
  /\ UNCHANGED <<regVars, sinceChange, burst, timeVars>>

\* The debounce timer fires while the timeline is shown.
TimelineTimerFires(id) ==
  /\ TimerFires(id)
  /\ Called("timer", NULL, FALSE)
  /\ view' = [view EXCEPT !.handler = IF @ = "load" THEN @ ELSE "timer"]
  /\ UNCHANGED <<regVars, sinceChange, burst, timeVars>>

\* --------------------------------------------------------- specifications
InitRegistryState ==
  /\ locationHash = NoHash
  /\ InitUrlState
  /\ items = <<>>
  /\ itemsById = <<>>
  /\ bundleConfig = [thresholdMs |-> DefaultThreshold, currentDate |-> Now]
  /\ ret = NoReturn("load")
  /\ view = NoView

NextBundling ==
  \/ \E config \in Configs : InitRegistry(manifest, config)
  \/ \E selectedTags \in TagArgs : ApplyFilter(selectedTags)
  \/ \E phaseId \in PhaseArgs : ComputeDisplayStructure(phaseId)
  \/ Reset

NextConnections ==
  \/ \E config \in Configs : InitRegistry(manifest, config)
  \/ \E selectedTags \in TagArgs : ApplyFilter(selectedTags)
  \/ \E selectedTags \in TagArgs : ComputeConnectionsByTag(selectedTags)
  \/ \E selectedGroup \in GroupArgs : ComputeConnectionsByGroup(selectedGroup)
  \/ Reset

\* The ids looked up: the first and third slugs, and one no project has.
LookupIds == {"a", "c", "zz"}

NextLookup ==
  \/ \E config \in Configs : InitRegistry(manifest, config)
  \/ \E selectedTags \in TagArgs : ApplyFilter(selectedTags)
  \/ \E phaseId \in PhaseArgs : ComputeDisplayStructure(phaseId)
  \/ \E id \in LookupIds : GetItemById(id)
  \/ Reset

InitBundling == manifest \in ManifestsOver(BundlingProjects) /\ InitRegistryState
InitConnections == manifest \in ManifestsOver(ConnectionProjects) /\ InitRegistryState

InitEligibility == manifest \in ManifestsOver(EligibilityProjects) /\ InitRegistryState
\* The registry and the bundling engine, over lists that vary in size, date and tags.
SpecEligibility == InitEligibility /\ [][NextBundling]_vars
\* The registry with its lookups, over the lists of the bundling runs.
SpecLookup == InitBundling /\ [][NextLookup]_vars
\* The registry and the bundling engine, over lists that vary in phase, size and tags.
SpecBundling == InitBundling /\ [][NextBundling]_vars
\* The registry and the connection engine, over lists that vary in group, size and tags.
SpecConnections == InitConnections /\ [][NextConnections]_vars

NextUrl ==
  \/ \E reg \in Registrations :
       /\ RegisterSection(reg.name, reg.config)
       /\ Observe("registerSection", reg.name, FALSE)
  \/ \E name \in UrlNames, partial \in Partials, immediate \in BOOLEAN :
       /\ UpdateSectionState(name, partial, immediate)
       /\ Observe("updateSectionState", name, immediate)
  \/ \E name \in ActiveNames, immediate \in BOOLEAN :
       /\ SetActiveSection(name, immediate)
       /\ Observe("setActiveSection", name, immediate)
  \/ \E state \in LegacyStates :
       /\ UpdateUrlState(state)
       /\ Observe("updateUrlState", state["section"], FALSE)
  \/ /\ InitFromUrl
     /\ Observe("initFromUrl", NULL, FALSE)
  \/ \E id \in timers :
       /\ TimerFires(id)
       /\ Observe("timer", NULL, FALSE)

NextBurst ==
  \/ \E reg \in Registrations :
       /\ RegisterSection(reg.name, reg.config)
       /\ TrackBurst("registerSection", reg.name, EmptyObject, FALSE)
  \/ \E name \in UrlNames, partial \in Partials, immediate \in BOOLEAN :
       /\ UpdateSectionState(name, partial, immediate)
       /\ TrackBurst("updateSectionState", name, partial, immediate)
  \/ \E name \in UrlNames, immediate \in BOOLEAN :
       /\ SetActiveSection(name, immediate)
       /\ TrackBurst("setActiveSection", name, EmptyObject, immediate)
  \/ \E state \in LegacyStates :
       /\ UpdateUrlState(state)
       /\ TrackBurst("updateUrlState", state["section"], EmptyObject, FALSE)
  \/ /\ InitFromUrl
     /\ TrackBurst("initFromUrl", NULL, EmptyObject, FALSE)
  \/ \E id \in timers :
       /\ TimerFires(id)
       /\ TrackBurst("timer", NULL, EmptyObject, FALSE)

InitUrl ==
  /\ locationHash \in InitialHashes
  /\ InitUrlState
  /\ manifest = <<>>
  /\ items = <<>>
  /\ itemsById = <<>>
  /\ bundleConfig = [thresholdMs |-> DefaultThreshold, currentDate |-> Now]
  /\ ret = NoReturn("load")
  /\ view = NoView

\* The calls of the timed runs.
DebounceNames == {"timeline", "hero"}
DebouncePartials == {[project |-> "p1"], [project |-> NULL]}

\* The manager's calls with the clock: a timeout runs when it is due or later.
NextDebounce ==
  \/ \E reg \in {r \in Registrations : r.name = "timeline"} :
       /\ RegisterSection(reg.name, reg.config)
       /\ Clocked("registerSection", reg.name, FALSE)
  \/ \E name \in DebounceNames, partial \in DebouncePartials, immediate \in BOOLEAN :
       /\ UpdateSectionState(name, partial, immediate)
       /\ Clocked("updateSectionState", name, immediate)
  \/ \E name \in DebounceNames, immediate \in BOOLEAN :
       /\ SetActiveSection(name, immediate)
       /\ Clocked("setActiveSection", name, immediate)
  \/ \E state \in LegacyStates :
       /\ UpdateUrlState(state)
       /\ Clocked("updateUrlState", state["section"], FALSE)
  \/ /\ InitFromUrl
     /\ Clocked("initFromUrl", NULL, FALSE)
  \/ \E id \in timers :
       /\ due[id] <= now
       /\ TimerFires(id)
       /\ Clocked("timer", NULL, FALSE)
  \/ Tick

InitDebounce ==
  /\ locationHash \in {NoHash, Hash("timeline", <<>>)}
  /\ InitUrlState
  /\ manifest = <<>>
  /\ items = <<>>
  /\ itemsById = <<>>
  /\ bundleConfig = [thresholdMs |-> DefaultThreshold, currentDate |-> Now]
  /\ ret = NoReturn("load")
  /\ view = NoView

\* The calls of the URL boundary runs: partials with a key the URL does not
\* carry and with a tag that holds a comma, hashes with a parameter the manager
\* does not read and with a mode the timeline does not know.
BoundaryNames == {"timeline", "hero"}
BoundaryPartials ==
  { [project |-> "p1"],
    [view |-> "list"],
    [tags |-> <<"a", "b">>, mode |-> "tag", group |-> NULL],
    [tags |-> <<"a,b">>],
    [tags |-> <<>>, mode |-> "group", group |-> "X"] }
BoundaryHashes ==
  { NoHash,
    Hash("timeline", << <<"utm", "x">>, <<"project", "p1">> >>),
    Hash("timeline", << <<"mode", "bogus">> >>) }

NextBoundary ==
  \/ \E reg \in Registrations :
       /\ RegisterSection(reg.name, reg.config)
       /\ Observe("registerSection", reg.name, FALSE)
  \/ \E name \in BoundaryNames, partial \in BoundaryPartials, immediate \in BOOLEAN :
       /\ UpdateSectionState(name, partial, immediate)
       /\ Observe("updateSectionState", name, immediate)
  \/ /\ InitFromUrl
     /\ Observe("initFromUrl", NULL, FALSE)
  \/ \E id \in timers :
       /\ TimerFires(id)
       /\ Observe("timer", NULL, FALSE)

InitBoundary ==
  /\ locationHash \in BoundaryHashes
  /\ InitUrlState
  /\ manifest = <<>>
  /\ items = <<>>
  /\ itemsById = <<>>
  /\ bundleConfig = [thresholdMs |-> DefaultThreshold, currentDate |-> Now]
  /\ ret = NoReturn("load")
  /\ view = NoView

\* The URL state manager over states and hashes with more than the URL's keys.
\* The timeline section from the page's load on: the projects its manifest is
\* made of, the hashes the page is opened with, the config init is given.
TimelineProjects ==
  { [phase |-> 1, tags |-> {"a"}, group |-> "X", level |-> 2, date |-> 50],
    [phase |-> 1, tags |-> {"b"}, group |-> "Y", level |-> 3, date |-> 50],
    [phase |-> 2, tags |-> {"a", "b"}, group |-> "X", level |-> 3, date |-> 50] }
TimelineHashes ==
  { NoHash,
    Hash("hero", <<>>),
    Hash("timeline", <<<<"tags", "a">>, <<"mode", "tag">>>>),
    Hash("timeline", <<<<"mode", "group">>, <<"group", "X">>>>),
    Hash("timeline", <<<<"mode", "bogus">>>>) }
TimelineConfigs ==
  { [has |-> {"thresholdMs", "currentDate"},
     thresholdMs |-> DefaultThreshold, currentDate |-> Now] }
TimelineTags == {"a", "b"}
TimelineModes == {"none", "tag", "group"}
TimelineGroups == {"X", "Y"}
SpyTargets == {"a"}

NextTimeline ==
  \/ \E config \in TimelineConfigs : TimelineInit(config)
  \/ \E tag \in TimelineTags : TagCloudClick(tag)
  \/ \E visible \in BOOLEAN : TagVisibilityClick(visible)
  \/ \E mode \in TimelineModes : ConnectionModeClick(mode)
  \/ \E group \in TimelineGroups : GroupClick(group)
  \/ \E slug \in SpyTargets : ProjectScrollSpy(slug)
  \/ \E id \in timers : TimelineTimerFires(id)

InitTimeline ==
  /\ manifest \in ManifestsOver(TimelineProjects)
  /\ locationHash \in TimelineHashes
  /\ InitUrlState
  /\ items = <<>>
  /\ itemsById = <<>>
  /\ bundleConfig = [thresholdMs |-> DefaultThreshold, currentDate |-> Now]
  /\ ret = NoReturn("load")
  /\ view = NoView

SpecTimeline == InitTimeline /\ [][NextTimeline]_vars

\* The URL state manager under a stream of calls, each timeout firing if it is
\* left set: the browser runs the callback of a timeout that is not cleared.
StreamNames == {"timeline", "hero"}
StreamActive == {"timeline", "hero", NULL}
StreamPartials == { [project |-> "p1"], [project |-> NULL] }
\* The ids setTimeout returns while at most MaxTimers - 2 timeouts are set.
MaxTimers == 3
TimerIds == 1..MaxTimers

TimerStep(id) ==
  /\ TimerFires(id)
  /\ Observe("timer", NULL, FALSE)

NextStream ==
  \/ /\ RegisterSection("timeline", [defaults |-> TimelineDefaults, onRestore |-> TRUE])
     /\ Observe("registerSection", "timeline", FALSE)
  \/ \E name \in StreamNames, partial \in StreamPartials, immediate \in BOOLEAN :
       /\ UpdateSectionState(name, partial, immediate)
       /\ Observe("updateSectionState", name, immediate)
  \/ \E name \in StreamActive, immediate \in BOOLEAN :
       /\ SetActiveSection(name, immediate)
       /\ Observe("setActiveSection", name, immediate)
  \/ \E id \in timers : TimerStep(id)

InitStream ==
  /\ locationHash \in {NoHash, Hash("timeline", <<<<"project", "p1">>>>)}
  /\ InitUrlState
  /\ manifest = <<>>
  /\ items = <<>>
  /\ itemsById = <<>>
  /\ bundleConfig = [thresholdMs |-> DefaultThreshold, currentDate |-> Now]
  /\ ret = NoReturn("load")
  /\ view = NoView

SpecStream ==
  /\ InitStream
  /\ [][NextStream]_vars
  /\ \A id \in TimerIds : WF_vars(TimerStep(id))

SpecBoundary == InitBoundary /\ [][NextBoundary]_vars
\* The URL state manager under any interleaving of its calls and the timer.
SpecUrl == InitUrl /\ [][NextUrl]_vars
\* The same, following the bursts of non-immediate updateSectionState calls.
SpecBurst == InitUrl /\ [][NextBurst]_vars
\* The same with the clock, following the debounce window.
SpecDebounce == InitDebounce /\ [][NextDebounce]_vars

\* ------------------------------------------------- bundling: C1, C2, C3
\* Item i is a visible bundleable item of phase p.
InRun(i, p) ==
  /\ items[i].phaseId = p
  /\ items[i].isVisible
  /\ isBundleable(items[i], bundleConfig)

\* Item k is a visible item of phase p that is not bundleable.
BreaksRun(k, p) ==
  /\ items[k].phaseId = p
  /\ items[k].isVisible
  /\ ~isBundleable(items[k], bundleConfig)

MemberIds(unit) == {unit.items[k].id : k \in 1..Len(unit.items)}

SameBundle(structure, a, b) ==
  \E u \in 1..Len(structure) :
    /\ structure[u].type = "bundle"
    /\ a \in MemberIds(structure[u])
    /\ b \in MemberIds(structure[u])

\* No other visible bundleable item of phase p is in item i's run.
AloneInRun(i, p) ==
  \A j \in 1..Len(items) :
    (j # i /\ InRun(j, p)) =>
      \E k \in 1..Len(items) :
        /\ (i < k /\ k < j) \/ (j < k /\ k < i)
        /\ BreaksRun(k, p)

\* C1: in computeDisplayStructure(p)'s result, two visible bundleable items of
\* phase p are in the same Bundle exactly when no visible non-bundleable item
\* of phase p lies between them in stored order; invisible items split nothing.
C1_BundleIsUnbrokenRun ==
  ret.op = "computeDisplayStructure" =>
    \A i, j \in 1..Len(items) :
      (i < j /\ InRun(i, ret.phaseId) /\ InRun(j, ret.phaseId)) =>
        ( SameBundle(ret.structure, items[i].id, items[j].id)
          <=> ~ \E k \in (i+1)..(j-1) : BreaksRun(k, ret.phaseId) )

\* [A, B, C] of one phase, all bundleable, B hidden by the filter: Bundle[A, C].
C1_Witness_HiddenItemAbsorbed ==
  /\ ret.op = "computeDisplayStructure"
  /\ \E i, k, j \in 1..Len(items) :
       /\ i < k /\ k < j
       /\ InRun(i, ret.phaseId) /\ InRun(j, ret.phaseId)
       /\ items[k].phaseId = ret.phaseId
       /\ ~items[k].isVisible
       /\ isBundleable(items[k], bundleConfig)
       /\ SameBundle(ret.structure, items[i].id, items[j].id)

\* C2: no Bundle of computeDisplayStructure's result has fewer than 2 members;
\* a run of exactly one visible bundleable item is an Entry with the item's id.
C2_NoBundleBelowTwo ==
  ret.op = "computeDisplayStructure" =>
    /\ \A u \in 1..Len(ret.structure) :
         ret.structure[u].type = "bundle" => Len(ret.structure[u].items) >= 2
    /\ \A i \in 1..Len(items) :
         (InRun(i, ret.phaseId) /\ AloneInRun(i, ret.phaseId)) =>
           \E u \in 1..Len(ret.structure) :
             /\ ret.structure[u].type = "entry"
             /\ ret.structure[u].id = items[i].id
             /\ ret.structure[u].items = <<items[i]>>

\* The filter leaves one of two bundleable items of the phase: it is an Entry.
C2_Witness_LoneItemIsEntry ==
  /\ ret.op = "computeDisplayStructure"
  /\ \E i, j \in 1..Len(items) :
       /\ InRun(i, ret.phaseId) /\ AloneInRun(i, ret.phaseId)
       /\ items[j].phaseId = ret.phaseId
       /\ ~items[j].isVisible
       /\ isBundleable(items[j], bundleConfig)
       /\ \E u \in 1..Len(ret.structure) :
            ret.structure[u].type = "entry" /\ ret.structure[u].id = items[i].id

\* C3: after applyFilter(S) every item is visible exactly when S is absent or
\* empty or the item has a tag in S, whatever the flags were before the call.
C3_FilterIsFullRecompute ==
  ret.op = "applyFilter" =>
    \A i \in 1..Len(items) :
      items[i].isVisible <=>
        ( \/ ret.selectedTags = None
          \/ ret.selectedTags[1] = {}
          \/ items[i].tags \cap ret.selectedTags[1] # {} )

\* A filter that shows one item and hides another.
C3_Witness_FilterSplitsItems ==
  /\ ret.op = "applyFilter"
  /\ ret.selectedTags # None
  /\ \E i, j \in 1..Len(items) :
       /\ items[i].isVisible /\ items[i].tags \cap ret.selectedTags[1] # {}
       /\ ~items[j].isVisible /\ items[j].tags # {}

\* --------------------------------------------- connections: C8, C9, C10
\* The positions of the display structure whose unit is in the connection map.
Connected(r) == {i \in 1..Len(r.structure) : r.structure[i].id \in DOMAIN r.connections}

\* C8: computeConnectionsByTag(S, structure), S not empty, returns a map whose
\* keys are the ids of the Entries whose item has a tag in S and of the Bundles
\* with at least one such child; every info has connected = true.
C8_TagMatchIsAnyChild ==
  (ret.op = "computeConnectionsByTag" /\ ret.selectedTags # None
     /\ ret.selectedTags[1] # {}) =>
    /\ DOMAIN ret.connections =
         { ret.structure[i].id : i \in
             { u \in 1..Len(ret.structure) :
                 IF ret.structure[u].type = "entry"
                   THEN ret.structure[u].items[1].tags \cap ret.selectedTags[1] # {}
                   ELSE \E k \in 1..Len(ret.structure[u].items) :
                          ret.structure[u].items[k].tags \cap ret.selectedTags[1] # {} } }
    /\ \A id \in DOMAIN ret.connections : ret.connections[id].connected

\* A Bundle connected through one child while another child has no tag of S,
\* beside a unit that is not connected.
C8_Witness_BundleByOneChild ==
  /\ ret.op = "computeConnectionsByTag"
  /\ ret.selectedTags # None
  /\ \E u, v \in 1..Len(ret.structure) :
       /\ ret.structure[u].type = "bundle"
       /\ ret.structure[u].id \in DOMAIN ret.connections
       /\ \E k \in 1..Len(ret.structure[u].items) :
            ret.structure[u].items[k].tags \cap ret.selectedTags[1] = {}
       /\ ret.structure[v].id \notin DOMAIN ret.connections

\* C9: computeConnectionsByGroup(G, structure), G a group, connects an Entry
\* exactly when its item's group is G and a Bundle exactly when every child has
\* a group and all of them are G.
C9_GroupMatchIsEveryChild ==
  (ret.op = "computeConnectionsByGroup" /\ ret.selectedGroup # NULL) =>
    \A u \in 1..Len(ret.structure) :
      (ret.structure[u].id \in DOMAIN ret.connections) <=>
        IF ret.structure[u].type = "entry"
          THEN ret.structure[u].items[1].group = ret.selectedGroup
          ELSE \A k \in 1..Len(ret.structure[u].items) :
                 /\ ret.structure[u].items[k].group # NULL
                 /\ ret.structure[u].items[k].group = ret.selectedGroup

\* A Bundle with children of groups {X, null} left out while an Entry of X is in.
C9_Witness_PartialBundleExcluded ==
  /\ ret.op = "computeConnectionsByGroup"
  /\ ret.selectedGroup = "X"
  /\ \E u, v \in 1..Len(ret.structure) :
       /\ ret.structure[u].type = "bundle"
       /\ \E k, m \in 1..Len(ret.structure[u].items) :
            /\ ret.structure[u].items[k].group = "X"
            /\ ret.structure[u].items[m].group = NULL
       /\ ret.structure[u].id \notin DOMAIN ret.connections
       /\ ret.structure[v].type = "entry"
       /\ ret.structure[v].id \in DOMAIN ret.connections

\* C10: over the matches in flattened order, isStart marks the first only and
\* isEnd the last only; gapAbove (gapBelow) of a match is true exactly when it
\* has a previous (next) match and their positions differ by more than 1.
C10_GapsAndExtremes ==
  ret.op \in {"computeConnectionsByTag", "computeConnectionsByGroup"} =>
    \A i \in Connected(ret) :
      LET info == ret.connections[ret.structure[i].id]
          above == {q \in Connected(ret) : q < i}
          below == {q \in Connected(ret) : q > i}
      IN /\ info.isStart <=> above = {}
         /\ info.isEnd <=> below = {}
         /\ info.gapAbove <=> (above # {} /\ \A q \in above : i - q > 1)
         /\ info.gapBelow <=> (below # {} /\ \A q \in below : q - i > 1)

\* Matches with an unconnected unit between them and matches side by side.
C10_Witness_GapBetweenMatches ==
  /\ ret.op \in {"computeConnectionsByTag", "computeConnectionsByGroup"}
  /\ \E i, j \in Connected(ret) :
       /\ j - i > 1
       /\ \A q \in Connected(ret) : ~(i < q /\ q < j)
       /\ ret.connections[ret.structure[i].id].isStart
       /\ ret.connections[ret.structure[i].id].gapBelow
       /\ ret.connections[ret.structure[j].id].gapAbove
       /\ ret.connections[ret.structure[j].id].isEnd


\* -------------------------------------------- URL state manager: C4 .. C7
\* The state after a burst: each key has the value of the last partial of the
\* burst that carries it, and the value it had before the burst otherwise.
MergedByLastWriter(start, partials) ==
  LET written == UNION {DOMAIN partials[i] : i \in 1..Len(partials)}
      lastWith(k) == CHOOSE i \in 1..Len(partials) :
                       /\ k \in DOMAIN partials[i]
                       /\ \A j \in (i+1)..Len(partials) : k \notin DOMAIN partials[j]
  IN [k \in DOMAIN start \cup written |->
        IF k \in written THEN partials[lastWith(k)][k] ELSE start[k]]

\* The hash of a section in the state given.
HashOfState(name, state) ==
  newHashOf([n \in {name} |-> [current |-> state]], name)

BurstHash == HashOfState(burst.name, MergedByLastWriter(burst.start, burst.partials))

\* C4 as stated: a burst of non-immediate updateSectionState calls on a
\* registered section within one debounce window produces exactly one
\* history.replaceState, and the hash is that of the merge of all its partials.
C4_Stated_BurstWritesExactlyOnce ==
  burst.done =>
    /\ burst.replaceState = 1
    /\ locationHash = BurstHash

\* C4 as amended: such a burst produces one flush and at most one
\* history.replaceState, exactly one when the hash of the merged state differs
\* from location.hash and none when it equals it; the section's state is the
\* merge of all partials in call order and location.hash is its hash.
C4_BurstWritesFinalStateOnce ==
  burst.done =>
    /\ burst.replaceState = (IF burst.hashAtStart # BurstHash THEN 1 ELSE 0)
    /\ effects.flushes = 1
    /\ activeSection = burst.name
    /\ sections[burst.name].current
         = MergedByLastWriter(burst.start, burst.partials)
    /\ locationHash = BurstHash

\* A burst of two calls or more, a later partial overwriting an earlier one's
\* key, ended by the one history write.
C4_Witness_BurstOverwritesKey ==
  /\ burst.done
  /\ burst.n >= 2
  /\ burst.replaceState = 1
  /\ \E i, j \in 1..Len(burst.partials) :
       /\ i < j
       /\ \E k \in DOMAIN burst.partials[i] \cap DOMAIN burst.partials[j] :
            burst.partials[i][k] # burst.partials[j][k]
  /\ HashOfState(burst.name, objectAssign(burst.start, burst.partials[1])) # BurstHash

\* C5: a flush never calls history.replaceState when the hash it computes is
\* location.hash already; two flushes with no change of the active section or
\* its state between them make one history.replaceState at most.
C5_NoWriteWithoutChange ==
  /\ effects.replaceState > 0 => call.hashChanged
  /\ sinceChange.replaceState <= 1

\* A second flush of an unchanged state after a flush that wrote.
C5_Witness_SecondFlushSilent ==
  /\ sinceChange.flushes = 2
  /\ sinceChange.replaceState = 1
  /\ effects.flushes = 1
  /\ effects.replaceState = 0

\* C6: at most one debounce timer is outstanding, and pendingTimer is non-null
\* exactly when it names the timer that is set and has neither fired nor been
\* cleared.
C6_AtMostOneTimer ==
  /\ Cardinality(timers) <= 1
  /\ \/ pendingTimer = NoTimer /\ timers = {}
     \/ pendingTimer # NoTimer /\ timers = {pendingTimer}

\* A non-immediate call arriving while the timer is pending.
C6_Witness_CallWhilePending ==
  /\ call.op \in {"updateSectionState", "setActiveSection", "updateUrlState"}
  /\ call.effective
  /\ ~call.immediate
  /\ call.pendingBefore
  /\ timers = {pendingTimer}

\* The state an immediate call leaves: no timer set or pending, one flush made,
\* location.hash the hash of the active section's state.
FlushedOnReturn ==
  /\ pendingTimer = NoTimer
  /\ timers = {}
  /\ effects.flushes = 1
  /\ locationHash = newHashOf(sections, activeSection)

\* C7 as stated: an immediate updateSectionState, or an immediate setActiveSection
\* with another name than the active one, cancels the pending timer and flushes
\* before it returns.
C7_Stated_ImmediateFlushes ==
  ( /\ call.immediate
    /\ \/ call.op = "updateSectionState"
       \/ call.op = "setActiveSection" /\ call.effective ) => FlushedOnReturn

\* C7 as amended: an immediate updateSectionState on a registered section, or
\* an immediate setActiveSection with a section name other than the active
\* one, cancels the pending timer and flushes before it returns; an immediate
\* setActiveSection with no name cancels the pending timer and leaves
\* location.hash as it was.
C7_ImmediateFlushesRegistered ==
  /\ ( /\ call.immediate
       /\ call.op \in {"updateSectionState", "setActiveSection"}
       /\ call.effective
       /\ call.name # NULL ) => FlushedOnReturn
  /\ ( /\ call.immediate
       /\ call.op = "setActiveSection"
       /\ call.effective
       /\ call.name = NULL ) =>
         /\ pendingTimer = NoTimer
         /\ timers = {}
         /\ ~call.hashChanged

\* An immediate call made while a timer was pending.
C7_Witness_PendingTimerCancelled ==
  /\ call.immediate
  /\ call.op \in {"updateSectionState", "setActiveSection"}
  /\ call.effective
  /\ call.pendingBefore
  /\ timers = {}
  /\ effects.replaceState = 1


\* ------------------------------------------------------ no selection: C11
\* C11: computeConnectionsByTag with an absent or empty tag set and
\* computeConnectionsByGroup with no group return an empty map, whatever the
\* display structure is.
C11_NoSelectionEmptyMap ==
  /\ ( /\ ret.op = "computeConnectionsByTag"
       /\ (ret.selectedTags = None \/ ret.selectedTags[1] = {}) ) =>
         DOMAIN ret.connections = {}
  /\ ( /\ ret.op = "computeConnectionsByGroup"
       /\ ret.selectedGroup \in {NULL, ""} ) =>
         DOMAIN ret.connections = {}

\* No group selected over a structure with an Entry whose group is null too,
\* and a Bundle beside it: nothing is connected.
C11_Witness_NullGroupMatchesNothing ==
  /\ ret.op = "computeConnectionsByGroup"
  /\ ret.selectedGroup = NULL
  /\ \E u, v \in 1..Len(ret.structure) :
       /\ ret.structure[u].type = "entry"
       /\ ret.structure[u].items[1].group = NULL
       /\ ret.structure[v].type = "bundle"
  /\ DOMAIN ret.connections = {}


\* -------------------------------------------- URL state manager: C12 .. C18
\* C12: a setActiveSection call with the active section's name changes nothing
\* of the manager, the timer or the URL, immediate or not; with another name it
\* sets activeSection to it and schedules a flush (flushes at once if
\* immediate, leaves a timer pending otherwise) and changes no section.
C12_SetActiveSectionFrame ==
  [][ call'.op = "setActiveSection" =>
        IF call'.name = activeSection
          THEN /\ UNCHANGED <<sections, activeSection, pendingTimer, timers, locationHash>>
               /\ effects'.flushes = 0
               /\ effects'.replaceState = 0
          ELSE /\ activeSection' = call'.name
               /\ sections' = sections
               /\ IF call'.immediate
                    THEN /\ effects'.flushes = 1
                         /\ pendingTimer' = NoTimer
                         /\ timers' = {}
                    ELSE /\ effects'.flushes = 0
                         /\ locationHash' = locationHash
                         /\ pendingTimer' # NoTimer
                         /\ timers' = {pendingTimer'}
                         /\ pendingTimer # NoTimer => pendingTimer' = pendingTimer
    ]_vars

\* An immediate setActiveSection with the active section's name made while a
\* timer is pending and the URL is behind: the timer is still pending after it.
C12_Witness_SameNameKeepsTimer ==
  /\ call.op = "setActiveSection"
  /\ call.immediate
  /\ call.name = activeSection
  /\ ~call.effective
  /\ call.pendingBefore
  /\ pendingTimer # NoTimer
  /\ locationHash # newHashOf(sections, activeSection)


\* The keys flushUpdate reads, and whether the state shows the key in the URL.
UrlKeys == {"project", "tags", "mode", "group"}
Shown(state, key) ==
  /\ key \in DOMAIN state
  /\ IF key = "tags" THEN state[key] # <<>>
     ELSE state[key] \notin {NULL, ""} /\ (key = "mode" => state[key] # "none")
\* The value the URL carries for a key of the state.
ParamOf(state, key) == IF key = "tags" THEN joinComma(state[key]) ELSE state[key]

\* C13: a hash written by a flush names the active section and carries exactly
\* the keys that section's current state shows, with that state's values; and
\* no call and no flush changes the state of a section other than the one the
\* call names, so the section that was active before keeps its state.
C13_SingleOwnerUrl ==
  /\ [] ( effects.replaceState > 0 =>
            LET cur == currentOf(sections, activeSection)
                params == locationHash.params
            IN /\ locationHash.section = activeSection
               /\ \A i \in 1..Len(params) :
                    /\ params[i][1] \in UrlKeys
                    /\ Shown(cur, params[i][1])
                    /\ params[i][2] = ParamOf(cur, params[i][1])
               /\ \A key \in UrlKeys :
                    Shown(cur, key) => \E i \in 1..Len(params) : params[i][1] = key )
  /\ [][ call'.op \in {"setActiveSection", "updateSectionState", "timer"} =>
           /\ DOMAIN sections' = DOMAIN sections
           /\ \A n \in DOMAIN sections :
                (call'.op # "updateSectionState" \/ n # call'.name) =>
                  sections'[n] = sections[n]
       ]_vars

\* The timeline holds a project and tags in memory while the URL written last
\* is the featured section's and shows none of them.
C13_Witness_PreviousSectionKept ==
  /\ effects.replaceState = 1
  /\ call.op \in {"setActiveSection", "updateSectionState"}
  /\ activeSection = "featured"
  /\ {"timeline", "featured"} \subseteq DOMAIN sections
  /\ Shown(sections["timeline"].current, "project")
  /\ Shown(sections["timeline"].current, "tags")
  /\ locationHash = Hash("featured", <<>>)


\* C14: initFromUrl on a hash that is not empty returns the parsed state; when
\* the hash names a registered section, that section's current state becomes
\* the parsed project, tags, mode and group and nothing else, its onRestore (if
\* it has one) is called once with that state, and no other section changes;
\* when it names no registered section, no section changes and nothing is called.
C14_InitFromUrlOverwrites ==
  [][ (call'.op = "initFromUrl" /\ locationHash # NoHash) =>
        LET name == locationHash.section
            returned == effects'.returned[1]
            restored == [k \in UrlKeys |-> returned[k]]
        IN /\ effects'.returned # None
           /\ DOMAIN returned = UrlKeys \cup {"section"}
           /\ returned.section = name
           /\ returned.project = paramsGet(locationHash.params, "project")
           /\ returned.group = paramsGet(locationHash.params, "group")
           /\ DOMAIN sections' = DOMAIN sections
           /\ \A n \in DOMAIN sections \ {name} : sections'[n] = sections[n]
           /\ IF name \in DOMAIN sections
                THEN /\ sections'[name].current = restored
                     /\ sections'[name].defaults = sections[name].defaults
                     /\ effects'.restores =
                          IF sections[name].onRestore
                            THEN <<[name |-> name, state |-> restored]>>
                            ELSE <<>>
                ELSE /\ sections' = sections
                     /\ effects'.restores = <<>>
    ]_vars

\* The featured section, registered with a key of its own, restored from
\* "#featured": its callback has run once and the key is gone from its state.
C14_Witness_OwnKeyDoesNotSurvive ==
  /\ call.op = "initFromUrl"
  /\ effects.returned # None
  /\ Len(effects.restores) = 1
  /\ effects.restores[1].name = "featured"
  /\ "view" \in DOMAIN sections["featured"].defaults
  /\ DOMAIN sections["featured"].current = UrlKeys
  /\ effects.restores[1].state = sections["featured"].current


\* The config registerSection is called with for a name.
ConfigOf(name) == (CHOOSE reg \in Registrations : reg.name = name).config

\* C15: registerSection(name, config) leaves the name registered with the
\* config's defaults and callback and with the defaults as its current state,
\* whatever was registered under the name before, and changes nothing else; the
\* same registration made again at once changes nothing at all.
C15_RegisterOverwrites ==
  /\ [][ call'.op = "registerSection" =>
           /\ DOMAIN sections' = DOMAIN sections \cup {call'.name}
           /\ sections'[call'.name] =
                [defaults |-> ConfigOf(call'.name).defaults,
                 current |-> ConfigOf(call'.name).defaults,
                 onRestore |-> ConfigOf(call'.name).onRestore]
           /\ \A n \in DOMAIN sections \ {call'.name} : sections'[n] = sections[n]
           /\ UNCHANGED <<activeSection, pendingTimer, timers, locationHash>>
           /\ effects'.flushes = 0
           /\ effects'.restores = <<>>
       ]_vars
  /\ [][ ( /\ call.op = "registerSection"
           /\ call'.op = "registerSection"
           /\ call'.name = call.name ) =>
             UNCHANGED <<sections, activeSection, pendingTimer, timers, locationHash>>
       ]_vars

\* The featured section registered over its registration by updateUrlState:
\* the URL still shows the project of the state that the registration replaced.
C15_Witness_ReRegistered ==
  /\ call.op = "registerSection"
  /\ call.name = "featured"
  /\ activeSection = "featured"
  /\ locationHash = Hash("featured", << <<"project", "p1">> >>)
  /\ sections["featured"].current = ConfigOf("featured").defaults
  /\ sections["featured"].onRestore


\* A hash that is empty, names no registered section, or has no query.
MalformedOrUnknown(hash, secs) ==
  \/ hash = NoHash
  \/ hash.section \notin DOMAIN secs
  \/ hash.params = <<>>

\* C16 as stated, for sections that are as registered when initFromUrl is
\* called: after initFromUrl on a hash that is empty, names no registered
\* section or has no query, every registered section's current state is its
\* registered defaults.
C16_Stated_FallsBackToDefaults ==
  [][ ( /\ call'.op = "initFromUrl"
        /\ MalformedOrUnknown(locationHash, sections)
        /\ \A n \in DOMAIN sections : sections[n].current = sections[n].defaults ) =>
          \A n \in DOMAIN sections' : sections'[n].current = sections'[n].defaults
    ]_vars


\* C17 as stated: whenever an active section is set and no debounce timer is
\* pending, location.hash is the hash built from the active section's name and
\* current state.
C17_Stated_UrlConsistent ==
  (activeSection \notin {NULL, ""} /\ pendingTimer = NoTimer) =>
    locationHash = newHashOf(sections, activeSection)


C19_Stated_InitReplacesAll ==
  ret.op = "initRegistry" =>
    /\ items = manifest
    /\ DOMAIN itemsById = {manifest[i].id : i \in 1..Len(manifest)}
    /\ \A id \in DOMAIN itemsById : items[itemsById[id]].id = id
    /\ bundleConfig.thresholdMs =
         (IF "thresholdMs" \in ret.config.has
            THEN ret.config.thresholdMs ELSE DefaultThreshold)
    /\ bundleConfig.currentDate =
         (IF "currentDate" \in ret.config.has
            THEN ret.config.currentDate ELSE Now)


\* The item's age is the threshold exactly.
AtThreshold(item) ==
  item.date # NoDate /\ bundleConfig.currentDate - item.date = bundleConfig.thresholdMs

\* C20: every member of a Bundle of computeDisplayStructure's result is of level
\* 3, has a date, and is older than the threshold; a visible item of the phase
\* that has no date, or whose age is the threshold exactly, is in no Bundle and
\* is an Entry of the result.
C20_MembersAreBundleable ==
  ret.op = "computeDisplayStructure" =>
    /\ \A u \in 1..Len(ret.structure) :
         ret.structure[u].type = "bundle" =>
           \A k \in 1..Len(ret.structure[u].items) :
             LET item == ret.structure[u].items[k]
             IN /\ item.level = 3
                /\ item.date # NoDate
                /\ bundleConfig.currentDate - item.date > bundleConfig.thresholdMs
    /\ \A i \in 1..Len(items) :
         ( /\ items[i].phaseId = ret.phaseId
           /\ items[i].isVisible
           /\ (items[i].date = NoDate \/ AtThreshold(items[i])) ) =>
             /\ \A u \in 1..Len(ret.structure) :
                  ret.structure[u].type = "bundle" =>
                    items[i].id \notin MemberIds(ret.structure[u])
             /\ \E u \in 1..Len(ret.structure) :
                  /\ ret.structure[u].type = "entry"
                  /\ ret.structure[u].items = <<items[i]>>

\* A small item whose age is the threshold exactly, an Entry after a Bundle of
\* two older small items.
C20_Witness_ThresholdItemIsEntry ==
  /\ ret.op = "computeDisplayStructure"
  /\ \E u, v \in 1..Len(ret.structure) :
       /\ ret.structure[u].type = "bundle"
       /\ ret.structure[v].type = "entry"
       /\ ret.structure[v].items[1].level = 3
       /\ AtThreshold(ret.structure[v].items[1])


\* ------------------------------------------------------------ lookups: C21
\* C21: in every registry state, computeDisplayStructure with a phaseId that no
\* item has returns the empty list and getItemById with an id that no item has
\* returns no item; neither call changes the registry.
C21_UnknownLookupsAreEmpty ==
  /\ [] ( ( /\ ret.op = "computeDisplayStructure"
            /\ \A i \in 1..Len(items) : items[i].phaseId # ret.phaseId ) =>
              ret.structure = <<>> )
  /\ [] ( ( /\ ret.op = "getItemById"
            /\ \A i \in 1..Len(items) : items[i].id # ret.id ) =>
              ret.item = None )
  /\ [] ( ( /\ ret.op = "getItemById"
            /\ \E i \in 1..Len(items) : items[i].id = ret.id ) =>
              /\ ret.item # None
              /\ ret.item[1].id = ret.id )
  /\ [][ ret'.op \in {"computeDisplayStructure", "getItemById"} =>
           UNCHANGED <<items, itemsById, bundleConfig>> ]_vars

\* An id no item has, looked up in a registry that holds items: nothing is
\* found.
C21_Witness_UnknownIdNotFound ==
  /\ ret.op = "getItemById"
  /\ ret.id = "zz"
  /\ Len(items) >= 2
  /\ ret.item = None


\* ------------------------------------------------------- URL boundary: C22
\* C22: a hash written by a flush has no parameter but project, tags, mode and
\* group, whatever keys the section's current state has; the state initFromUrl
\* gives a section (and its callback) has these four keys and no other,
\* whatever parameters the hash has.
C22_OnlyFourKeysCross ==
  /\ effects.replaceState > 0 =>
       \A i \in 1..Len(locationHash.params) : locationHash.params[i][1] \in UrlKeys
  /\ (call.op = "initFromUrl" /\ locationHash # NoHash) =>
       /\ locationHash.section \in DOMAIN sections =>
            DOMAIN sections[locationHash.section].current = UrlKeys
       /\ \A i \in 1..Len(effects.restores) :
            DOMAIN effects.restores[i].state = UrlKeys
       /\ DOMAIN effects.returned[1] = UrlKeys \cup {"section"}

\* A flush has written the hash of a state that has a view key beside a
\* project: the hash has the project and no view.
C22_Witness_ExtraKeyNotWritten ==
  /\ effects.replaceState = 1
  /\ activeSection \in DOMAIN sections
  /\ Truthy(sections[activeSection].current, "view")
  /\ Truthy(sections[activeSection].current, "project")
  /\ locationHash.params = << <<"project", "p1">> >>

\* C23: after syncConnectionsToDOM(container, connections) an element whose
\* ConnectionInfo has both isStart and isEnd carries is-isolated and neither
\* is-connection-start nor is-connection-end, every other element of the map
\* does not carry is-isolated, and an element without an entry in the map
\* carries none of the connection classes, whatever an earlier pass left on it.
C23_IsolatedOverridesEnds ==
  \A el \in DOMAIN view.dom :
    IF el \in DOMAIN view.connections
      THEN IF view.connections[el].isStart /\ view.connections[el].isEnd
             THEN /\ "is-isolated" \in view.dom[el]
                  /\ "is-connection-start" \notin view.dom[el]
                  /\ "is-connection-end" \notin view.dom[el]
             ELSE /\ "is-isolated" \notin view.dom[el]
                  /\ "is-connected" \in view.dom[el]
      ELSE view.dom[el] \cap ConnectionClasses = {}

\* A pass that marks one element isolated and finds, on an element the map has
\* no entry for, connection classes of the pass before, and removes them.
C23_Witness_IsolatedAndStaleCleared ==
  /\ \E el \in DOMAIN view.dom \cap DOMAIN view.connections :
        /\ view.connections[el].isStart /\ view.connections[el].isEnd
        /\ view.dom[el] \cap ConnectionClasses = {"is-connected", "is-isolated"}
  /\ \E el \in (DOMAIN view.dom \cap DOMAIN view.domBefore) \ DOMAIN view.connections :
        /\ view.domBefore[el] \cap ConnectionClasses # {}
        /\ view.dom[el] \cap ConnectionClasses = {}

\* C24: in the timeline view, after init and after every handler, the items'
\* isVisible flags are those applyFilter(selectedTags) sets, currentDisplayStructure
\* is the newest-phase-first concatenation of computeDisplayStructure over them,
\* and the elements shown are the ones rendered from it: no render reads the
\* visibility of an older selection.
C24_FilterPrecedesStructure ==
  view.handler # "load" =>
    /\ items = applyFilter(items, Some(asSet(view.selectedTags)))
    /\ view.currentDisplayStructure = currentDisplayStructure(items, bundleConfig)
    /\ DOMAIN view.dom = DOMAIN renderedElements(view.currentDisplayStructure)

\* A tag-cloud click has left a filter that hides one item and shows another,
\* and the structure has fewer items than the registry.
C24_Witness_FilteredRender ==
  /\ view.handler = "tagCloud"
  /\ Len(view.selectedTags) > 0
  /\ \E i, j \in 1..Len(items) : ~items[i].isVisible /\ items[j].isVisible
  /\ Len(view.currentDisplayStructure) > 0
  /\ Len(view.currentDisplayStructure) < Len(items)

\* The handlers of the user's clicks in the timeline view.
UserInteractions == {"tagCloud", "tagVisibility", "connectionMode", "group"}

\* C25: every user interaction in the timeline view that changes selectedTags,
\* connectionMode or selectedGroup leaves the 'timeline' section's current state
\* with tags equal to selectedTags, mode equal to connectionMode and group equal
\* to selectedGroup, and has flushed the URL at once: a flush ran in the
\* handler, no timer is pending and the hash is the one built from that state.
C25_Stated_InteractionsSynced ==
  [][ ( /\ view'.handler \in UserInteractions
        /\ <<view'.selectedTags, view'.connectionMode, view'.selectedGroup>>
             # <<view.selectedTags, view.connectionMode, view.selectedGroup>> )
      => ( /\ "timeline" \in DOMAIN sections'
           /\ sections'["timeline"].current["tags"] = view'.selectedTags
           /\ sections'["timeline"].current["mode"] = view'.connectionMode
           /\ sections'["timeline"].current["group"] = view'.selectedGroup
           /\ call'.op = "updateSectionState" /\ call'.immediate
           /\ effects'.flushes = 1
           /\ pendingTimer' = NoTimer
           /\ locationHash' = newHashOf(sections', "timeline") ) ]_vars

\* C26: once init has run initFromUrl and the restore callback, whatever the
\* hash, the mode in the 'timeline' section's current state and the timeline's
\* connectionMode are each one of none, tag and group, and stay so through the
\* user's interactions and the flushes.
C26_Stated_ModeIsEnum ==
  view.handler # "load" =>
    /\ view.connectionMode \in TimelineModes
    /\ sections["timeline"].current["mode"] \in TimelineModes

\* The items of a display structure in order, the bundles' items in place.
RECURSIVE flattenUnits(_)
flattenUnits(displayStructure) ==
  IF Len(displayStructure) = 0 THEN <<>>
  ELSE Head(displayStructure).items \o flattenUnits(Tail(displayStructure))

\* C27: in every registry state and for every phase p, computeDisplayStructure(p)
\* is a partition of the visible items of phase p: flattening its bundles in
\* place gives exactly the visible items of the phase in stored order, so each
\* appears once, as an Entry or in one Bundle, and no invisible item and no item
\* of another phase appears.
C27_StructurePartitionsVisible ==
  \A p \in PhaseArgs :
    LET displayStructure == computeDisplayStructure(items, bundleConfig, p)
        flat == flattenUnits(displayStructure)
    IN /\ flat = SelectSeq(items, LAMBDA item : item.phaseId = p /\ item.isVisible)
       /\ \A i, j \in 1..Len(flat) : flat[i].id = flat[j].id => i = j
       /\ \A u \in 1..Len(displayStructure) :
            /\ displayStructure[u].type = "entry" => Len(displayStructure[u].items) = 1
            /\ displayStructure[u].type = "bundle" => Len(displayStructure[u].items) >= 2

\* The structure returned for a phase has a bundle, while the registry holds a
\* third item that is not in it: a hidden item of the phase between the
\* bundle's two, or an item of another phase.
C27_Witness_BundleAmongOthers ==
  /\ ret.op = "computeDisplayStructure"
  /\ ret.structure = computeDisplayStructure(items, bundleConfig, ret.phaseId)
  /\ \E u \in 1..Len(ret.structure) : ret.structure[u].type = "bundle"
  /\ Len(items) = 3
  /\ \/ items[2].phaseId = ret.phaseId /\ ~items[2].isVisible
     \/ items[2].phaseId # ret.phaseId

\* C28: in tag mode with a non-empty selection S, the display structure having
\* been computed after applyFilter(S) and the connections by
\* computeConnectionsByTag with the same S, every display unit is connected and
\* none has gapAbove or gapBelow; a gap is found in group mode only.
C28_TagModeConnectsAll ==
  /\ ( /\ view.handler # "load"
       /\ view.connectionMode = "tag"
       /\ Len(view.selectedTags) > 0 )
     => /\ view.connections =
             computeConnectionsByTag(Some(asSet(view.selectedTags)),
                                     currentDisplayStructure(
                                       applyFilter(items, Some(asSet(view.selectedTags))),
                                       bundleConfig))
        /\ \A u \in 1..Len(view.currentDisplayStructure) :
             LET id == view.currentDisplayStructure[u].id
             IN /\ id \in DOMAIN view.connections
                /\ view.connections[id].connected
                /\ ~view.connections[id].gapAbove
                /\ ~view.connections[id].gapBelow
  /\ (\E id \in DOMAIN view.connections :
        view.connections[id].gapAbove \/ view.connections[id].gapBelow)
     => view.connectionMode = "group"

\* Tag mode with a selection that hides an item and shows two units or more,
\* each of them connected.
C28_Witness_TagModeFiltered ==
  /\ view.handler # "load"
  /\ view.connectionMode = "tag"
  /\ Len(view.selectedTags) > 0
  /\ \E i \in 1..Len(items) : ~items[i].isVisible
  /\ Len(view.currentDisplayStructure) >= 2
  /\ \A u \in 1..Len(view.currentDisplayStructure) :
       view.currentDisplayStructure[u].id \in DOMAIN view.connections

\* A non-immediate call that went on to scheduleUpdate has just been made.
ScheduledCall ==
  /\ call.op \in {"updateSectionState", "setActiveSection"}
  /\ call.effective
  /\ ~call.immediate

\* A flush has just run, and the URL is the one built from the active section
\* and its state as they are now (nothing is written with no active section).
FlushObservesNow ==
  /\ effects.flushes = 1
  /\ activeSection \notin {NULL, ""} => locationHash = newHashOf(sections, activeSection)

\* C29: each timeout firing if it is left set, every non-immediate
\* updateSectionState on a registered section and every effective
\* setActiveSection is eventually followed by a flush that builds the URL from
\* the active section and its merged state as they are at the flush; a further
\* non-immediate call that finds the timer pending leaves that timer as it is,
\* so calls that keep coming cannot put the flush off.
C29_ScheduledCallIsFlushed ==
  /\ ScheduledCall ~> FlushObservesNow
  /\ [][ ( /\ call' # call
           /\ call'.op \in {"updateSectionState", "setActiveSection"}
           /\ call'.effective /\ ~call'.immediate
           /\ pendingTimer # NoTimer )
         => ( pendingTimer' = pendingTimer /\ timers' = timers ) ]_vars

\* The timer's flush after a call that found it pending: it writes a new hash,
\* the one of the active section's state as the later call left it.
C29_Witness_TimerFlushWritesLatest ==
  /\ call.op = "timer"
  /\ call.hashChanged
  /\ effects.flushes = 1
  /\ activeSection = "timeline"
  /\ "timeline" \in DOMAIN sections
  /\ sections["timeline"].current["project"] = "p1"
  /\ locationHash = newHashOf(sections, activeSection)

\* A state of exactly the URL's four keys: project and group each null or a
\* non-empty string, tags a list of non-empty strings, mode one of the three.
WellFormedState(state) ==
  /\ DOMAIN state = UrlKeys
  /\ state["project"] # ""
  /\ state["group"] # ""
  /\ \A i \in 1..Len(state["tags"]) : state["tags"][i] # ""
  /\ state["mode"] \in TimelineModes

\* No tag of the state has a comma in it.
CommaFreeTags(state) ==
  \A i \in 1..Len(state["tags"]) : state["tags"][i] \in Pieces

\* initFromUrl is called while the hash is the one a flush builds from the
\* active, registered section's state.
ParsesFlushedHash ==
  /\ call'.op = "initFromUrl"
  /\ activeSection \notin {NULL, ""}
  /\ activeSection \in DOMAIN sections
  /\ locationHash = newHashOf(sections, activeSection)

\* initFromUrl leaves the section active and its current state as it was.
RestoresTheSame ==
  /\ activeSection' = activeSection
  /\ activeSection \in DOMAIN sections'
  /\ sections'[activeSection].current = sections[activeSection].current

\* C30 as stated: for a registered section whose current state is well formed,
\* the hash a flush writes, parsed by initFromUrl, names the same section and
\* restores a current state equal to the one flushed.
C30_Stated_RoundTrip ==
  [][ ( ParsesFlushedHash /\ WellFormedState(sections[activeSection].current) )
      => RestoresTheSame ]_vars

\* C30: the round trip holds for the well-formed states none of whose tags
\* contains a comma: the hash a flush writes for such a state, parsed by
\* initFromUrl, names the same section and restores an equal current state.
C30_RoundTripOfCommaFreeTags ==
  [][ ( /\ ParsesFlushedHash
        /\ WellFormedState(sections[activeSection].current)
        /\ CommaFreeTags(sections[activeSection].current) )
      => RestoresTheSame ]_vars

\* initFromUrl has parsed the hash flushed for a state with two tags and a
\* mode, and the section's state is that state again.
C30_Witness_TwoTagsRestored ==
  /\ call.op = "initFromUrl"
  /\ activeSection = "timeline"
  /\ "timeline" \in DOMAIN sections
  /\ WellFormedState(sections["timeline"].current)
  /\ sections["timeline"].current["tags"] = <<"a", "b">>
  /\ sections["timeline"].current["mode"] = "tag"
  /\ locationHash = newHashOf(sections, activeSection)
  /\ locationHash.params = <<<<"tags", "a,b">>, <<"mode", "tag">>>>

====
